---- MODULE Spec2Model ----
(***************************************************************************)
(* BeeBreeding: the client-side data pipeline.                             *)
(*                                                                         *)
(*   convertBreedingPairsToMutations  (src/src/data/dataLoader.js)         *)
(*   buildHierarchy                   (src/src/data/beeProcessor.js)       *)
(*   getAllAncestors/getAllDescendants (BeeBreedingApp)                    *)
(*                                                                         *)
(* Species ids are modelled as small integers; id 0 (Absent) is an id that *)
(* is never a key of the dataset or of the node map.                       *)
(***************************************************************************)
EXTENDS Integers, Sequences, FiniteSets, TLC

VARIABLES
    phase,          \* position in the pipeline
    breedingPairs,  \* loader input: parsed mutations.jsonc
    beesKeys,       \* loader input: keys of parsed bees.jsonc, in key order
    beeData,        \* the dataset buildHierarchy is called on
    generationMap,  \* buildHierarchy: Map bee -> generation
    visitedBees,    \* buildHierarchy: Set of assigned bees
    changed,        \* buildHierarchy: loop flag
    iterations,     \* buildHierarchy: passes started
    warnings,       \* console.warn calls made by buildHierarchy
    nodes,          \* result: node list
    links,          \* result: link list
    nodeMap,        \* result: id -> node
    queryKind,      \* which traversal runs: "ancestors" or "descendants"
    queryStart,     \* the id the top-level call was made with
    callStack,      \* activation records of the recursive traversal
    expansions,     \* id -> how often its parents/children list was iterated
    queryResult,    \* the Set the top-level call returned
    intermediateData,       \* buildOutput: the per-mod parse results, in merge order
    merged,                 \* buildOutput: the merged record set and mutation list
    identifier,             \* findBee: the reference it is called with
    found,                  \* findBee: what the call returned
    mutationGroups,         \* buildBreedingPairsJsonc: the Map, in insertion order
    mutationIndex,          \* buildBreedingPairsJsonc: next record of the forEach
    skippedMutationsCount,  \* buildBreedingPairsJsonc: skipped records
    builderWarnings,        \* console.warn lines of the output builder
    sortedGroups,           \* buildBreedingPairsJsonc: the array it returns
    parserKind,             \* which species parser runs: "MagicBees" or "CareerBees"
    parserSource,           \* the parser's view of the Java file: declarations, statements
    parserResult,           \* the parser's result object: bees, mutations, branches
    parserIndex,            \* next regular-expression match of the running loop
    parserReturned,         \* the intermediate data the parser returned
    loaderKind,             \* loadBeeData: which of the two loader modules runs
    fetches,                \* loadBeeData: the two fetch promises, by file
    loaderLog,              \* console.error calls of loadBeeData
    beesJsonc,              \* buildBeesJsonc: the output object, keys in file order
    sourceFiles,            \* build.js: the source files fs.existsSync finds
    throwingParsers,        \* build.js: the mods whose parser throws on its file
    modsToInclude,          \* parseAllMods: its argument, null or an array of mod keys
    modIndex,               \* parseAllMods: next entry of the for loop
    buildLog,               \* console output of parseAllMods, one record per mod
    selectedMods,           \* BeeBreedingApp: the Set of checked mod filters
    fullHierarchyData,      \* BeeBreedingApp: node map of the unfiltered hierarchy
    isModFiltered,          \* BeeBreedingApp: flag set by the mod filter
    isFilteredView,         \* BeeBreedingApp: the filtered view is shown
    originalPositions,      \* BeeBreedingApp: Map id -> {x, y} saved by the filtered view
    currentSelectedNode,    \* BeeBreedingApp: id of the selected node, or null
    filterModeToggle,       \* the checked state of the filter-mode checkbox
    positions,              \* x and y of the node objects of this.nodes, by id
    hiddenNodes             \* ids of the node elements with display: none

inputVars == <<breedingPairs, beesKeys>>
relaxVars == <<generationMap, visitedBees, changed, iterations, warnings>>
hierarchyVars == <<nodes, links, nodeMap>>
queryVars == <<queryKind, queryStart, callStack, expansions, queryResult>>
parserVars == <<parserKind, parserSource, parserResult, parserIndex, parserReturned>>
fetchVars == <<loaderKind, fetches, loaderLog>>
toolVars == <<beesJsonc, sourceFiles, throwingParsers, modsToInclude, modIndex,
              buildLog>>
appVars == <<selectedMods, fullHierarchyData, isModFiltered, isFilteredView,
             originalPositions, currentSelectedNode, filterModeToggle, positions,
             hiddenNodes>>
scriptVars == <<intermediateData, merged, identifier, found, mutationGroups,
                mutationIndex, skippedMutationsCount, builderWarnings,
                sortedGroups, parserVars>>

vars == <<phase, breedingPairs, beesKeys, beeData, generationMap, visitedBees,
          changed, iterations, warnings, nodes, links, nodeMap,
          queryKind, queryStart, callStack, expansions, queryResult,
          intermediateData, merged, identifier, found, mutationGroups,
          mutationIndex, skippedMutationsCount, builderWarnings, sortedGroups,
          parserKind, parserSource, parserResult, parserIndex, parserReturned,
          loaderKind, fetches, loaderLog,
          beesJsonc, sourceFiles, throwingParsers, modsToInclude, modIndex, buildLog,
          selectedMods, fullHierarchyData, isModFiltered, isFilteredView,
          originalPositions, currentSelectedNode, filterModeToggle, positions,
          hiddenNodes>>

----------------------------------------------------------------------------
(* Bounds of the model                                                     *)

NumBees == 3
MaxCombos == 2
MaxEdges == 3
ChainBees == 22

(* Program constant: the pass cap of the relaxation loop                    *)
MaxIterations == 20

Absent == 0

(* JavaScript null, as a value that is no record of a record set           *)
Null == [isNull |-> TRUE]
Bees == 1..NumBees
Refs == Bees \cup {Absent}

----------------------------------------------------------------------------
(* Helpers                                                                 *)

Max2(a, b) == IF a >= b THEN a ELSE b

SetMax(S) == CHOOSE m \in S : \A x \in S : x <= m

Range(s) == {s[k] : k \in DOMAIN s}

SeqsUpTo(S, n) == UNION {[1..k -> S] : k \in 0..n}

Includes(s, x) == \E k \in DOMAIN s : s[k] = x

NoDuplicates(s) == \A i, j \in DOMAIN s : s[i] = s[j] => i = j

(* Array.from(new Set(...)) over the concatenation s: first occurrences,   *)
(* in insertion order                                                      *)
RECURSIVE Dedup(_)
Dedup(s) ==
    IF s = <<>> THEN <<>>
    ELSE LET init == Dedup(SubSeq(s, 1, Len(s) - 1))
             last == s[Len(s)]
         IN IF Includes(init, last) THEN init ELSE Append(init, last)

RECURSIVE Flatten(_)
Flatten(ss) ==
    IF ss = <<>> THEN <<>> ELSE Head(ss) \o Flatten(Tail(ss))

----------------------------------------------------------------------------
(* Datasets                                                                *)

BeeInfo(hasPC, pcs, children) ==
    [hasPC |-> hasPC, parentCombinations |-> pcs, children |-> children]

(* the parent combinations recorded for bee b in a flat list of            *)
(* <<child, <<parent1, parent2>>>> entries, in list order                  *)
RECURSIVE CombosOf(_, _)
CombosOf(entries, b) ==
    IF entries = <<>> THEN <<>>
    ELSE LET rest == CombosOf(Tail(entries), b)
         IN IF Head(entries)[1] = b THEN <<Head(entries)[2]>> \o rest ELSE rest

(* a hand-written dataset over Bees: entries gives the combinations,       *)
(* missing the records that carry no parentCombinations field              *)
SmallDataset(entries, missing) ==
    [keys |-> [k \in 1..NumBees |-> k],
     info |-> [b \in Bees |->
                 BeeInfo(b \notin missing, CombosOf(entries, b), <<>>)]]

(* a breeding chain 1 <- 2 <- ... <- n, keys in breeding order or reversed *)
ChainDataset(n, reversed) ==
    [keys |-> [k \in 1..n |-> IF reversed THEN n + 1 - k ELSE k],
     info |-> [b \in 1..n |->
                 BeeInfo(TRUE, IF b = 1 THEN <<>> ELSE <<<<b - 1, 1>>>>, <<>>)]]

AllBees(data) == data.keys
KeySet(data) == Range(data.keys)

----------------------------------------------------------------------------
(* buildHierarchy: base bees                                               *)

IsBaseBee(data, bee) ==
    LET beeInfo == data.info[bee]
    IN IF ~beeInfo.hasPC THEN TRUE
       ELSE Len(beeInfo.parentCombinations) = 0

BaseBees(data) == {bee \in KeySet(data) : IsBaseBee(data, bee)}

BaseWarnings(data) ==
    {[kind |-> "MissingParentCombinations", bee |-> bee] :
        bee \in {b \in KeySet(data) : ~data.info[b].hasPC}}

----------------------------------------------------------------------------
(* buildHierarchy: one visit of the forEach inside the while loop          *)

CombinationValid(parents, gm) ==
    \A k \in DOMAIN parents : parents[k] \in DOMAIN gm

CombinationMaxGen(parents, gm) ==
    SetMax({-1} \cup {gm[parents[k]] : k \in DOMAIN parents})

MaxParentGeneration(pcs, gm) ==
    SetMax({-1} \cup {CombinationMaxGen(pcs[c], gm) :
                         c \in {d \in DOMAIN pcs : CombinationValid(pcs[d], gm)}})

AllParentsHaveGeneration(pcs, gm) ==
    \A c \in DOMAIN pcs : CombinationValid(pcs[c], gm)

CanAssign(pcs, gm) ==
    MaxParentGeneration(pcs, gm) >= 0 /\ AllParentsHaveGeneration(pcs, gm)

(* faulty variant: the new generation is the parents' maximum, not one above it *)
AssignedGenerationNoStep(pcs, gm) == MaxParentGeneration(pcs, gm)

AssignedGeneration(pcs, gm) == MaxParentGeneration(pcs, gm) + 1

(* st = [gm, visited, changed]                                             *)
VisitBee(data, bee, st) ==
    LET beeInfo == data.info[bee]
        pcs == beeInfo.parentCombinations
    IN IF bee \in st.visited THEN st
       ELSE IF ~beeInfo.hasPC THEN st
       ELSE IF Len(pcs) > 0 /\ CanAssign(pcs, st.gm)
            THEN [gm |-> [x \in DOMAIN st.gm \cup {bee} |->
                            IF x = bee THEN AssignedGeneration(pcs, st.gm)
                            ELSE st.gm[x]],
                  visited |-> st.visited \cup {bee},
                  changed |-> TRUE]
            ELSE st

RECURSIVE PassFrom(_, _, _)
PassFrom(data, i, st) ==
    IF i > Len(data.keys) THEN st
    ELSE PassFrom(data, i + 1, VisitBee(data, data.keys[i], st))

(* faulty variant: the while loop without its pass cap *)
LoopContinuesUncapped(ch, it) == ch

LoopContinues(ch, it) == ch /\ it < MaxIterations

----------------------------------------------------------------------------
(* buildHierarchy: nodes and links                                         *)

GenerationOrZero(gm, bee) == IF bee \in DOMAIN gm THEN gm[bee] ELSE 0

MakeNode(data, gm, bee) ==
    LET beeInfo == data.info[bee]
    IN [id |-> bee,
        generation |-> GenerationOrZero(gm, bee),
        children |-> beeInfo.children,
        parentCombinations |-> beeInfo.parentCombinations,
        parents |-> Dedup(Flatten(beeInfo.parentCombinations))]

MakeNodes(data, gm) == [k \in DOMAIN data.keys |-> MakeNode(data, gm, data.keys[k])]

(* nodeMap.set(bee, node) for every node in order: the last node of an id  *)
MakeNodeMap(ns) ==
    [b \in {ns[k].id : k \in DOMAIN ns} |->
        ns[CHOOSE k \in DOMAIN ns :
              ns[k].id = b /\ \A j \in DOMAIN ns : ns[j].id = b => j <= k]]

LinkOf(parentId, childId) == [source |-> parentId, target |-> childId]

(* the links one child node contributes: one per parent id of each pair    *)
(* that is a key of nodeMap                                               *)
RECURSIVE PairLinks(_, _, _)
PairLinks(parentIds, childId, known) ==
    IF parentIds = <<>> THEN <<>>
    ELSE (IF Head(parentIds) \in known
          THEN <<LinkOf(Head(parentIds), childId)>> ELSE <<>>)
         \o PairLinks(Tail(parentIds), childId, known)

NodeLinks(node, known) ==
    PairLinks(Flatten(node.parentCombinations), node.id, known)

RECURSIVE MakeLinks(_, _)
MakeLinks(ns, known) ==
    IF ns = <<>> THEN <<>>
    ELSE NodeLinks(Head(ns), known) \o MakeLinks(Tail(ns), known)

----------------------------------------------------------------------------
(* Initial values                                                          *)

(* buildHierarchy has not been entered                                     *)
NotStarted ==
    /\ generationMap = <<>>
    /\ visitedBees = {}
    /\ changed = FALSE
    /\ iterations = 0
    /\ warnings = {}

(* no traversal has been asked for                                         *)
NoQuery ==
    /\ queryKind = "none"
    /\ queryStart = Absent
    /\ callStack = <<>>
    /\ expansions = <<>>
    /\ queryResult = {}

(* no parser has been called                                               *)
ParserIdle ==
    /\ parserKind = "none"
    /\ parserSource = [species |-> <<>>, statements |-> <<>>]
    /\ parserResult = [bees |-> <<>>, mutations |-> <<>>, branches |-> <<>>]
    /\ parserIndex = 0
    /\ parserReturned = Null

(* loadBeeData has not been called                                         *)
LoaderIdle ==
    /\ loaderKind = "none"
    /\ fetches = <<>>
    /\ loaderLog = <<>>

(* bees.jsonc has not been built and build.js has not run                  *)
ToolsIdle ==
    /\ beesJsonc = <<>>
    /\ sourceFiles = {}
    /\ throwingParsers = {}
    /\ modsToInclude = Null
    /\ modIndex = 0
    /\ buildLog = <<>>

(* the state the constructor of BeeBreedingApp leaves                      *)
AppConstructed ==
    /\ selectedMods = {}
    /\ fullHierarchyData = Null
    /\ isModFiltered = FALSE
    /\ isFilteredView = FALSE
    /\ originalPositions = <<>>
    /\ currentSelectedNode = Null
    /\ filterModeToggle = TRUE
    /\ positions = <<>>
    /\ hiddenNodes = {}

(* the build scripts have not run                                          *)
ScriptsIdle ==
    /\ intermediateData = <<>>
    /\ merged = [bees |-> <<>>, mutations |-> <<>>]
    /\ identifier = <<>>
    /\ found = Null
    /\ mutationGroups = <<>>
    /\ mutationIndex = 0
    /\ skippedMutationsCount = 0
    /\ builderWarnings = <<>>
    /\ sortedGroups = <<>>
    /\ ParserIdle

----------------------------------------------------------------------------
(* Actions of buildHierarchy                                               *)

FindBaseBees ==
    /\ phase = "build"
    /\ generationMap' = [b \in BaseBees(beeData) |-> 0]
    /\ visitedBees' = BaseBees(beeData)
    /\ warnings' = BaseWarnings(beeData)
    /\ changed' = TRUE
    /\ iterations' = 0
    /\ phase' = "relax"
    /\ UNCHANGED <<fetchVars, toolVars, appVars, scriptVars, inputVars, beeData, hierarchyVars, queryVars>>

RelaxPass ==
    /\ phase = "relax"
    /\ LoopContinues(changed, iterations)
    /\ LET st == PassFrom(beeData, 1,
                   [gm |-> generationMap, visited |-> visitedBees, changed |-> FALSE])
       IN /\ generationMap' = st.gm
          /\ visitedBees' = st.visited
          /\ changed' = st.changed
    /\ iterations' = iterations + 1
    /\ UNCHANGED <<fetchVars, toolVars, appVars, scriptVars, phase, inputVars, beeData, warnings, hierarchyVars, queryVars>>

CreateNodesAndLinks ==
    /\ phase = "relax"
    /\ ~LoopContinues(changed, iterations)
    /\ LET ns == MakeNodes(beeData, generationMap)
       IN /\ nodes' = ns
          /\ nodeMap' = MakeNodeMap(ns)
          /\ links' = MakeLinks(ns, DOMAIN MakeNodeMap(ns))
    /\ phase' = "done"
    /\ UNCHANGED <<fetchVars, toolVars, appVars, scriptVars, inputVars, beeData, relaxVars, queryVars>>

----------------------------------------------------------------------------
(* Specification of buildHierarchy on hand-written datasets                *)

(* parent pairs as mutations.jsonc lists them: the first id is not above   *)
(* the second                                                              *)
PairSet == {p \in Refs \X Refs : p[1] <= p[2]}

ChildrenOf(entries) == {entries[k][1] : k \in DOMAIN entries}

InitBuild ==
    /\ phase = "build"
    /\ breedingPairs = <<>>
    /\ beesKeys = <<>>
    /\ \/ \E e \in SeqsUpTo(Bees \X PairSet, MaxCombos) :
             \E m \in SUBSET (Bees \ ChildrenOf(e)) :
                beeData = SmallDataset(e, m)
       \/ \E n \in 1..ChainBees, r \in BOOLEAN :
             beeData = ChainDataset(n, r)
    /\ NotStarted
    /\ nodes = <<>>
    /\ links = <<>>
    /\ nodeMap = <<>>
    /\ NoQuery
    /\ LoaderIdle
    /\ ToolsIdle
    /\ AppConstructed
    /\ ScriptsIdle

NextBuild == FindBaseBees \/ RelaxPass \/ CreateNodesAndLinks

Spec == InitBuild /\ [][NextBuild]_vars

----------------------------------------------------------------------------
(* convertBreedingPairsToMutations (dataLoader.js)                         *)

(* a mutation group of the breeding-pairs file: children lists the         *)
(* species of its child entries                                            *)
BreedingPair(parents, children) == [parents |-> parents, children |-> children]

EmptyData == [keys |-> <<>>, info |-> <<>>]

(* beeData[id] = {..., parentCombinations: [], children: []} on a new key  *)
PutBee(data, id) ==
    [keys |-> Append(data.keys, id),
     info |-> [b \in DOMAIN data.info \cup {id} |->
                 IF b = id THEN BeeInfo(TRUE, <<>>, <<>>) ELSE data.info[b]]]

EnsureBee(data, id) == IF id \in DOMAIN data.info THEN data ELSE PutBee(data, id)

RECURSIVE InitBees(_, _)
InitBees(data, ks) ==
    IF ks = <<>> THEN data ELSE InitBees(PutBee(data, Head(ks)), Tail(ks))

PushCombination(data, childId, combo) ==
    [data EXCEPT !.info[childId].parentCombinations = Append(@, combo)]

(* faulty variant: the child is pushed without the includes() test *)
AddChildAlways(data, parentId, childId) ==
    [data EXCEPT !.info[parentId].children = Append(@, childId)]

AddChild(data, parentId, childId) ==
    IF Includes(data.info[parentId].children, childId) THEN data
    ELSE [data EXCEPT !.info[parentId].children = Append(@, childId)]

(* the body of pair.children.forEach for one child                         *)
ProcessChild(data, parent1, parent2, childId) ==
    LET d1 == EnsureBee(data, childId)
        d2 == EnsureBee(d1, parent1)
        d3 == EnsureBee(d2, parent2)
        d4 == PushCombination(d3, childId, <<parent1, parent2>>)
        d5 == AddChild(d4, parent1, childId)
    IN AddChild(d5, parent2, childId)

RECURSIVE ProcessChildren(_, _, _, _)
ProcessChildren(data, parent1, parent2, children) ==
    IF children = <<>> THEN data
    ELSE ProcessChildren(ProcessChild(data, parent1, parent2, Head(children)),
                         parent1, parent2, Tail(children))

RECURSIVE ProcessPairs(_, _)
ProcessPairs(data, pairs) ==
    IF pairs = <<>> THEN data
    ELSE ProcessPairs(ProcessChildren(data, Head(pairs).parents[1],
                                      Head(pairs).parents[2], Head(pairs).children),
                      Tail(pairs))

ConvertBreedingPairsToMutations(pairs, ks) ==
    ProcessPairs(InitBees(EmptyData, ks), pairs)

(* loadBeeData: the conversion of the two parsed files; the app then calls *)
(* buildHierarchy on the result                                            *)
LoadBeeData ==
    /\ phase = "load"
    /\ beeData' = ConvertBreedingPairsToMutations(breedingPairs, beesKeys)
    /\ phase' = "build"
    /\ UNCHANGED <<fetchVars, toolVars, appVars, scriptVars, inputVars, relaxVars, hierarchyVars, queryVars>>

(* the species ids of the two files                                        *)
LoadPairSet == {p \in Bees \X Bees : p[1] <= p[2]}

(* the breeding-pairs file made of a flat list of <<child, parents>>       *)
(* entries: neighbouring entries of the same parents form one group        *)
RECURSIVE GroupEntries(_)
GroupEntries(entries) ==
    IF entries = <<>> THEN <<>>
    ELSE LET init == GroupEntries(SubSeq(entries, 1, Len(entries) - 1))
             last == entries[Len(entries)]
         IN IF init # <<>> /\ init[Len(init)].parents = last[2]
            THEN [init EXCEPT ![Len(init)].children = Append(@, last[1])]
            ELSE Append(init, BreedingPair(last[2], <<last[1]>>))

InitLoad ==
    /\ phase = "load"
    /\ \E e \in SeqsUpTo(Bees \X LoadPairSet, MaxCombos) :
          breedingPairs = GroupEntries(e)
    /\ \E n \in 0..NumBees : beesKeys = [k \in 1..n |-> k]
    /\ beeData = EmptyData
    /\ NotStarted
    /\ nodes = <<>>
    /\ links = <<>>
    /\ nodeMap = <<>>
    /\ NoQuery
    /\ LoaderIdle
    /\ ToolsIdle
    /\ AppConstructed
    /\ ScriptsIdle

NextLoad == LoadBeeData \/ FindBaseBees \/ RelaxPass \/ CreateNodesAndLinks

SpecLoad == InitLoad /\ [][NextLoad]_vars

----------------------------------------------------------------------------
(* getAllAncestors / getAllDescendants (BeeBreedingApp)                    *)
(*                                                                         *)
(* The recursion is run on an explicit stack. A frame is one activation:   *)
(* nodeId, its own visited Set (after visited.add(nodeId)), the Set it is  *)
(* building (acc) and the position of its forEach (idx).                   *)

Frame(id, visited, acc, idx) ==
    [nodeId |-> id, visited |-> visited, acc |-> acc, idx |-> idx]

(* node.parents for getAllAncestors, node.children for getAllDescendants;  *)
(* nothing when nodeMap.get(nodeId) is undefined                          *)
QueryList(kind, id) ==
    IF id \notin DOMAIN nodeMap THEN <<>>
    ELSE IF kind = "ancestors" THEN nodeMap[id].parents
    ELSE nodeMap[id].children

(* faulty variant: the guard at the head of the function is lost *)
AlreadyVisitedNever(id, visited) == FALSE

(* if (visited.has(nodeId)) return new Set()                               *)
AlreadyVisited(id, visited) == id \in visited

(* faulty variant: the id is collected only when it will be expanded *)
CollectUnlessVisited(acc, id, visited) ==
    IF id \in visited THEN acc ELSE acc \cup {id}

(* ancestors.add(parentId) / descendants.add(childId)                      *)
Collect(acc, id, visited) == acc \cup {id}

CountExpansion(counts, kind, id) ==
    IF id \notin DOMAIN nodeMap THEN counts
    ELSE [x \in DOMAIN counts \cup {id} |->
            IF x = id THEN (IF id \in DOMAIN counts THEN counts[id] + 1 ELSE 1)
            ELSE counts[x]]

(* the call get...(id, visited) made with the stack as it is: it returns   *)
(* an empty Set at once, or a new activation starts                        *)
EnterCall(stack, id, visited) ==
    IF AlreadyVisited(id, visited) THEN stack
    ELSE Append(stack, Frame(id, visited \cup {id}, {}, 1))

Top == callStack[Len(callStack)]

(* the top-level call, visited = new Set()                                 *)
QueryStart ==
    /\ phase = "ready"
    /\ \E kind \in {"ancestors", "descendants"}, start \in DOMAIN nodeMap \cup {Absent} :
          /\ queryKind' = kind
          /\ queryStart' = start
          /\ callStack' = EnterCall(<<>>, start, {})
          /\ expansions' = CountExpansion(expansions, kind, start)
    /\ phase' = "query"
    /\ UNCHANGED <<fetchVars, toolVars, appVars, scriptVars, inputVars, beeData, relaxVars, hierarchyVars, queryResult>>

(* one turn of the forEach of the running activation: the id is added and  *)
(* the function is called on it with a copy of visited                     *)
QueryVisit ==
    /\ phase = "query"
    /\ callStack # <<>>
    /\ Top.idx <= Len(QueryList(queryKind, Top.nodeId))
    /\ LET id == QueryList(queryKind, Top.nodeId)[Top.idx]
           caller == [Top EXCEPT !.acc = Collect(Top.acc, id, Top.visited),
                                 !.idx = Top.idx + 1]
           below == [callStack EXCEPT ![Len(callStack)] = caller]
       IN /\ callStack' = EnterCall(below, id, Top.visited)
          /\ expansions' = IF AlreadyVisited(id, Top.visited) THEN expansions
                           ELSE CountExpansion(expansions, queryKind, id)
    /\ UNCHANGED <<fetchVars, toolVars, appVars, scriptVars, phase, inputVars, beeData, relaxVars, hierarchyVars,
                   queryKind, queryStart, queryResult>>

(* the running activation returns its Set; the caller adds every element   *)
QueryReturn ==
    /\ phase = "query"
    /\ callStack # <<>>
    /\ Top.idx > Len(QueryList(queryKind, Top.nodeId))
    /\ IF Len(callStack) = 1
       THEN /\ queryResult' = Top.acc
            /\ callStack' = <<>>
            /\ phase' = "answered"
       ELSE /\ callStack' =
                 [SubSeq(callStack, 1, Len(callStack) - 1)
                    EXCEPT ![Len(callStack) - 1].acc = @ \cup Top.acc]
            /\ UNCHANGED <<queryResult, phase>>
    /\ UNCHANGED <<fetchVars, toolVars, appVars, scriptVars, inputVars, beeData, relaxVars, hierarchyVars,
                   queryKind, queryStart, expansions>>

(* hand-built hierarchies: an edge <<p, c>> puts p in c.parents and c in   *)
(* p.children; an edge may name the absent id on either side               *)
EdgeUniverse == (Refs \X Refs) \ {<<Absent, Absent>>}

RECURSIVE AscendingSeq(_)
AscendingSeq(S) ==
    IF S = {} THEN <<>>
    ELSE LET m == CHOOSE x \in S : \A y \in S : x <= y
         IN <<m>> \o AscendingSeq(S \ {m})

HandBuiltNode(E, b) ==
    [id |-> b,
     generation |-> 0,
     children |-> AscendingSeq({e[2] : e \in {x \in E : x[1] = b}}),
     parentCombinations |-> <<>>,
     parents |-> AscendingSeq({e[1] : e \in {x \in E : x[2] = b}})]

HandBuiltNodes(E, n) == [b \in 1..n |-> HandBuiltNode(E, b)]

(* the diamond A -> B, A -> C, B -> D, C -> D with A, B, C, D = 1, 2, 3, 4 *)
DiamondEdges == {<<1, 2>>, <<1, 3>>, <<2, 4>>, <<3, 4>>}

DiamondNodes == HandBuiltNodes(DiamondEdges, 4)

InitQuery ==
    /\ phase = "ready"
    /\ breedingPairs = <<>>
    /\ beesKeys = <<>>
    /\ beeData = EmptyData
    /\ NotStarted
    /\ \/ \E s \in SeqsUpTo(EdgeUniverse, MaxEdges) :
             nodes = HandBuiltNodes(Range(s), NumBees)
       \/ nodes = DiamondNodes
    /\ links = <<>>
    /\ nodeMap = MakeNodeMap(nodes)
    /\ NoQuery
    /\ LoaderIdle
    /\ ToolsIdle
    /\ AppConstructed
    /\ ScriptsIdle

NextQuery == QueryStart \/ QueryVisit \/ QueryReturn

(* the traversal is one synchronous call: it runs until it returns         *)
SpecQuery == InitQuery /\ [][NextQuery]_vars /\ WF_vars(NextQuery)

----------------------------------------------------------------------------
(* Properties of buildHierarchy                                            *)

Done == phase = "done"

Gen(b) == nodeMap[b].generation

Combos(b) == beeData.info[b].parentCombinations

FullyResolved(combo) == \A k \in DOMAIN combo : combo[k] \in KeySet(beeData)

ResolvedCombos(b) == {c \in DOMAIN Combos(b) : FullyResolved(Combos(b)[c])}

(* still unassigned when the relaxation loop ended                         *)
Fallback(b) == b \in KeySet(beeData) /\ b \notin DOMAIN generationMap

Flagged(b) == \E w \in warnings : w.bee = b

ParentEdge(p, c) == \E k \in DOMAIN Combos(c) : Includes(Combos(c)[k], p)

(* the dataset has no reference cycle: peeling off, again and again, the   *)
(* bees none of whose parents is left, leaves nothing                      *)
RECURSIVE Peel(_)
Peel(S) ==
    LET free == {b \in S : \A p \in S : ~ParentEdge(p, b)}
    IN IF free = {} THEN S ELSE Peel(S \ free)

Acyclic == Peel(KeySet(beeData)) = {}

AllParentsPresent ==
    \A b \in KeySet(beeData) : \A c \in DOMAIN Combos(b) : FullyResolved(Combos(b)[c])

(* C1: after buildHierarchy returns, every node with at least one fully    *)
(* resolved parent combination has generation 1 + the maximum, over its    *)
(* fully resolved combinations, of the larger parent generation; and a     *)
(* node has generation 0 iff it has no parent combinations or its record   *)
(* has no parentCombinations field.                                        *)
C1_GenerationFormula ==
    Done =>
        \A n \in KeySet(beeData) :
            /\ ResolvedCombos(n) # {} =>
                 Gen(n) = 1 + SetMax({Max2(Gen(Combos(n)[c][1]), Gen(Combos(n)[c][2])) :
                                         c \in ResolvedCombos(n)})
            /\ Gen(n) = 0 <=>
                 (Len(Combos(n)) = 0 \/ ~beeData.info[n].hasPC)

(* C2: on a dataset without reference cycle in which every parent id is a  *)
(* key, every node with a parent combination gets a generation >= 1,       *)
(* whatever the key order and the depth of the chain.                      *)
C2_NoFallbackOnWellFormedData ==
    (Done /\ Acyclic /\ AllParentsPresent) =>
        \A n \in KeySet(beeData) : Len(Combos(n)) > 0 => Gen(n) >= 1

(* C3: for every link parent -> child whose child was not forced to        *)
(* generation 0 by the fallback, the child's generation is strictly above  *)
(* the parent's.                                                           *)
C3_GenerationMonotone ==
    Done =>
        \A k \in DOMAIN links :
            ~Fallback(links[k].target) =>
                Gen(links[k].target) > Gen(links[k].source)

C3_Witness ==
    /\ Done
    /\ \E k, j \in DOMAIN links :
          /\ links[k].target = links[j].target
          /\ ~Fallback(links[k].target)
          /\ Gen(links[k].source) = 0
          /\ Gen(links[j].source) >= 1
    /\ \E b \in KeySet(beeData) : Fallback(b)

(* C4: the relaxation ends after at most 20 passes on every dataset, with  *)
(* reference cycles and absent parent ids included (every RelaxPass is one *)
(* pass and adds one to iterations), and an absent parent id does not keep *)
(* buildHierarchy from making a node for every key and links between      *)
(* nodes only.                                                             *)
C4_RelaxationTerminates ==
    /\ iterations <= MaxIterations
    /\ Done => /\ DOMAIN nodeMap = KeySet(beeData)
               /\ \A k \in DOMAIN links : links[k].source \in DOMAIN nodeMap

C4_Witness ==
    /\ Done
    /\ ~Acyclic
    /\ ~AllParentsPresent
    /\ \E b \in KeySet(beeData) : Fallback(b)

(* C5: every node still unassigned when the relaxation loop ends is forced *)
(* to generation 0 and is flagged by a diagnostic.                         *)
C5_FallbackFlagged ==
    Done => \A b \in KeySet(beeData) : Fallback(b) => (Gen(b) = 0 /\ Flagged(b))

(* C6: exactly one link per (parent, child) pair such that the parent      *)
(* appears in a combination of the child: no two links have the same       *)
(* source and target.                                                      *)
C6_OneLinkPerPair ==
    Done =>
        /\ NoDuplicates(links)
        /\ \A p, c \in KeySet(beeData) :
              ParentEdge(p, c) <=> Includes(links, LinkOf(p, c))

----------------------------------------------------------------------------
(* Properties of the loader's hierarchy                                    *)

LinkExists(p, c) == Includes(links, LinkOf(p, c))

(* C7: in the hierarchy built from the loader's dataset, c is in           *)
(* p.children iff a link p -> c exists, and no children list holds an id   *)
(* twice.                                                                  *)
C7_ChildrenInverseOfLinks ==
    Done =>
        \A p \in DOMAIN nodeMap :
            /\ NoDuplicates(nodeMap[p].children)
            /\ \A c \in DOMAIN nodeMap \cup Range(nodeMap[p].children) :
                  Includes(nodeMap[p].children, c) <=> LinkExists(p, c)

(* a parent that appears in two combinations of the same child, and a      *)
(* species paired with itself                                              *)
C7_Witness ==
    /\ Done
    /\ \E c \in DOMAIN nodeMap :
          /\ Len(nodeMap[c].parentCombinations) >= 2
          /\ \E p \in DOMAIN nodeMap :
                /\ Includes(nodeMap[c].parentCombinations[1], p)
                /\ Includes(nodeMap[c].parentCombinations[2], p)
                /\ Includes(nodeMap[p].children, c)
    /\ \E c \in DOMAIN nodeMap : \E k \in DOMAIN nodeMap[c].parentCombinations :
          nodeMap[c].parentCombinations[k][1] = nodeMap[c].parentCombinations[k][2]

----------------------------------------------------------------------------
(* Properties of the traversals                                            *)

Answered == phase = "answered"

Neighbours(kind, S) == UNION {Range(QueryList(kind, x)) : x \in S}

RECURSIVE Closure(_, _)
Closure(kind, S) ==
    LET T == S \cup Neighbours(kind, S)
    IN IF T = S THEN S ELSE Closure(kind, T)

(* the ids reachable from n by one or more parent (child) steps            *)
Reachable(kind, n) == Closure(kind, Neighbours(kind, {n}))

IsDiamond == nodes = DiamondNodes

(* C8: getAllAncestors(n) is exactly the set of ids reachable from n by    *)
(* one or more parent steps, getAllDescendants(n) the set reachable by one *)
(* or more child steps; in the diamond ancestors(D) = {A,B,C} and          *)
(* descendants(A) = {B,C,D}.                                               *)
C8_ClosureExact ==
    Answered =>
        /\ queryResult = Reachable(queryKind, queryStart)
        /\ (IsDiamond /\ queryKind = "ancestors" /\ queryStart = 4)
              => queryResult = {1, 2, 3}
        /\ (IsDiamond /\ queryKind = "descendants" /\ queryStart = 1)
              => queryResult = {2, 3, 4}

C8_Witness ==
    /\ Answered
    /\ IsDiamond
    /\ queryKind = "ancestors"
    /\ queryStart = 4
    /\ queryResult = {1, 2, 3}

(* C9: the returned set never contains the start id, reference cycles      *)
(* included.                                                               *)
C9_StartExcluded == Answered => queryStart \notin queryResult

AllIds == DOMAIN nodeMap \cup {Absent}
             \cup UNION {Range(nodeMap[b].parents) \cup Range(nodeMap[b].children) :
                            b \in DOMAIN nodeMap}

(* the activations on the stack are of different ids, each in its own      *)
(* visited Set, which extends the caller's                                 *)
StackBounded ==
    /\ Len(callStack) <= Cardinality(AllIds)
    /\ \A i \in DOMAIN callStack :
          /\ callStack[i].nodeId \in callStack[i].visited
          /\ \A j \in DOMAIN callStack :
                i < j => /\ callStack[i].visited \subseteq callStack[j].visited
                         /\ callStack[j].nodeId \notin callStack[i].visited

(* C10: both traversals terminate on every finite hierarchy and start id,  *)
(* cycles and absent ids included, and leave the node map and every        *)
(* parents/children list unchanged.                                        *)
C10_TraversalTerminates ==
    /\ [](StackBounded)
    /\ [][nodeMap' = nodeMap /\ nodes' = nodes]_vars
    /\ <>Answered

C10_Witness ==
    /\ Answered
    /\ queryStart \in queryResult
    /\ Absent \in queryResult

----------------------------------------------------------------------------
(* Strings of the build scripts: a string is the sequence of its           *)
(* characters, a character a one-letter TLA+ string                        *)

UpperCaseLetters ==
    <<"A", "B", "C", "D", "E", "F", "G", "H", "I", "J", "K", "L", "M",
      "N", "O", "P", "Q", "R", "S", "T", "U", "V", "W", "X", "Y", "Z">>

LowerCaseLetters ==
    <<"a", "b", "c", "d", "e", "f", "g", "h", "i", "j", "k", "l", "m",
      "n", "o", "p", "q", "r", "s", "t", "u", "v", "w", "x", "y", "z">>

UpperCaseSet == {UpperCaseLetters[i] : i \in DOMAIN UpperCaseLetters}

LowerCaseSet == {LowerCaseLetters[i] : i \in DOMAIN LowerCaseLetters}

IsUpper(c) == c \in UpperCaseSet

IsLower(c) == c \in LowerCaseSet

(* the position in the alphabet of every letter, and the case mappings     *)
LetterIndexOf ==
    [c \in UpperCaseSet \cup LowerCaseSet |->
        CHOOSE i \in DOMAIN UpperCaseLetters :
            UpperCaseLetters[i] = c \/ LowerCaseLetters[i] = c]

LetterIndex(c) == LetterIndexOf[c]

LowerOf == [c \in UpperCaseSet |-> LowerCaseLetters[LetterIndexOf[c]]]

UpperOf == [c \in LowerCaseSet |-> UpperCaseLetters[LetterIndexOf[c]]]

toLowerCaseChar(c) == IF IsUpper(c) THEN LowerOf[c] ELSE c

toUpperCaseChar(c) == IF IsLower(c) THEN UpperOf[c] ELSE c

(* String.prototype.toLowerCase / toUpperCase                              *)
toLowerCase(s) == [i \in DOMAIN s |-> toLowerCaseChar(s[i])]

toUpperCase(s) == [i \in DOMAIN s |-> toUpperCaseChar(s[i])]

(* s.charAt(0) and s.slice(1): both are "" on the empty string             *)
charAt0(s) == IF s = <<>> THEN <<>> ELSE <<s[1]>>

slice1(s) == IF s = <<>> THEN <<>> ELSE Tail(s)

(* s.includes(c) for a one-character c                                     *)
StrIncludes(s, c) == \E i \in DOMAIN s : s[i] = c

(* s.split(c): the pieces between the occurrences of c                     *)
RECURSIVE split(_, _)
split(s, c) ==
    IF ~StrIncludes(s, c) THEN <<s>>
    ELSE LET i == CHOOSE k \in DOMAIN s :
                      s[k] = c /\ \A j \in 1..(k - 1) : s[j] # c
         IN <<SubSeq(s, 1, i - 1)>> \o split(SubSeq(s, i + 1, Len(s)), c)

(* parts.join(sep)                                                         *)
RECURSIVE join(_, _)
join(parts, sep) ==
    IF parts = <<>> THEN <<>>
    ELSE IF Len(parts) = 1 THEN parts[1]
    ELSE parts[1] \o sep \o join(Tail(parts), sep)

(* s.replace(/_/g, "")                                                     *)
StripUnderscores(s) == SelectSeq(s, LAMBDA c : c # "_")

(* the string literals of the scripts                                      *)
Str_forestry == <<"f", "o", "r", "e", "s", "t", "r", "y">>

Str_extrabees == <<"e", "x", "t", "r", "a", "b", "e", "e", "s">>

Str_magicbees == <<"m", "a", "g", "i", "c", "b", "e", "e", "s">>

Str_careerbees == <<"c", "a", "r", "e", "e", "r", "b", "e", "e", "s">>

Str_meatballcraft == <<"m", "e", "a", "t", "b", "a", "l", "l", "c", "r", "a", "f", "t">>

Str_gendustry == <<"g", "e", "n", "d", "u", "s", "t", "r", "y">>

Str_species == <<"s", "p", "e", "c", "i", "e", "s">>

Str_Forestry == <<"F", "o", "r", "e", "s", "t", "r", "y">>

Str_ExtraBees == <<"E", "x", "t", "r", "a", "B", "e", "e", "s">>

Str_MagicBees == <<"M", "a", "g", "i", "c", "B", "e", "e", "s">>

Str_CareerBees == <<"C", "a", "r", "e", "e", "r", "B", "e", "e", "s">>

Str_MeatballCraft == <<"M", "e", "a", "t", "b", "a", "l", "l", "C", "r", "a", "f", "t">>

----------------------------------------------------------------------------
(* findBee, the resolver inside buildBreedingPairsJsonc                    *)
(*                                                                         *)
(* merged.bees is a function from uid strings to records.  A reference     *)
(* that is undefined, null or "" is the empty string.                      *)

(* merged.bees is created by the object literal {} (line 20), so a lookup   *)
(* that finds no own key goes on to Object.prototype: "constructor" stands *)
(* for its property names (toString, valueOf, hasOwnProperty, ...), whose  *)
(* values are truthy builtins                                              *)
Str_constructor == <<"c", "o", "n", "s", "t", "r", "u", "c", "t", "o", "r">>

ObjectPrototypeKeys == {Str_constructor}

Inherited(key) == [inherited |-> key]

HasBee(bees, key) == key \in DOMAIN bees \/ key \in ObjectPrototypeKeys

Lookup(bees, key) == IF key \in DOMAIN bees THEN bees[key] ELSE Inherited(key)

(* modPrefixMap, as its <<key, value>> entries                             *)
modPrefixMap ==
    << <<Str_forestry, Str_forestry>>,
       <<Str_extrabees, Str_extrabees>>,
       <<Str_magicbees, Str_magicbees>>,
       <<Str_careerbees, Str_careerbees>>,
       <<Str_meatballcraft, Str_gendustry>> >>

(* modPrefixMap[mod.toLowerCase()] || mod.toLowerCase()                    *)
modPrefix(mod) ==
    LET key == toLowerCase(mod)
    IN IF \E i \in DOMAIN modPrefixMap : modPrefixMap[i][1] = key
       THEN modPrefixMap[CHOOSE i \in DOMAIN modPrefixMap :
                             modPrefixMap[i][1] = key][2]
       ELSE key

(* the magicbees pattern: underscores removed, first character kept, rest  *)
(* lowercased                                                              *)
nameWithoutUnderscore(name) == StripUnderscores(name)

magicBeesPattern(prefix, name) ==
    prefix \o <<".">> \o Str_species
           \o charAt0(nameWithoutUnderscore(name))
           \o toLowerCase(slice1(nameWithoutUnderscore(name)))

(* a faulty variant: the species-prefixed key is tried before the          *)
(* lowercase key                                                           *)
basePatternsSwapped(prefix, name) ==
    << prefix \o <<".">> \o Str_species \o name,
       prefix \o <<".">> \o toLowerCase(name),
       prefix \o <<".">> \o Str_species \o <<".">> \o toLowerCase(name) >>

(* the three patterns every Mod:Name reference is tried with               *)
basePatterns(prefix, name) ==
    << prefix \o <<".">> \o toLowerCase(name),
       prefix \o <<".">> \o Str_species \o name,
       prefix \o <<".">> \o Str_species \o <<".">> \o toLowerCase(name) >>

patterns(mod, prefix, name) ==
    IF toLowerCase(mod) = Str_magicbees /\ StrIncludes(name, "_")
    THEN Append(basePatterns(prefix, name), magicBeesPattern(prefix, name))
    ELSE basePatterns(prefix, name)

(* name.split("_").map(capitalise).join(" ")                               *)
nameWithSpace(name) ==
    LET parts == split(name, "_")
    IN join([i \in DOMAIN parts |->
                toUpperCase(charAt0(parts[i])) \o toLowerCase(slice1(parts[i]))],
            <<" ">>)

spacePatterns(prefix, name) ==
    << prefix \o <<".">> \o toLowerCase(nameWithSpace(name)),
       prefix \o <<".">> \o Str_species \o nameWithSpace(name) >>

(* for (const pattern of patterns) if (merged.bees[pattern]) return it     *)
FirstExisting(bees, pats) ==
    IF \E i \in DOMAIN pats : HasBee(bees, pats[i])
    THEN Lookup(bees, pats[CHOOSE i \in DOMAIN pats :
                               /\ HasBee(bees, pats[i])
                               /\ \A j \in 1..(i - 1) : ~HasBee(bees, pats[j])])
    ELSE Null

findBee(bees, id) ==
    IF id = <<>> THEN Null
    ELSE IF HasBee(bees, id) THEN Lookup(bees, id)
    ELSE IF StrIncludes(id, ":")
    THEN LET mod == split(id, ":")[1]
             name == split(id, ":")[2]
             prefix == modPrefix(mod)
             hit == FirstExisting(bees, patterns(mod, prefix, name))
         IN IF hit # Null THEN hit
            ELSE IF StrIncludes(name, "_")
            THEN FirstExisting(bees, spacePatterns(prefix, name))
            ELSE Null
    ELSE Null

----------------------------------------------------------------------------
(* Specification of findBee on small record sets                           *)

MaxKeys == 2

Str_Rocky == <<"R", "o", "c", "k", "y">>

(* a local name with a word separator, and the spellings a key may use     *)
(* for it: with a space, with the separator removed, and capitalised       *)
Str_A_B == <<"A", "_", "B">>

NameSpellings ==
    {Str_Rocky, Str_A_B, <<"A", " ", "B">>, <<"A", "B">>, <<"A", "b">>}

KeyPrefixes == {Str_extrabees, Str_gendustry, Str_magicbees}

(* the uid conventions of the mods: prefix.name, prefix.speciesName,       *)
(* prefix.species.name                                                     *)
KeyForms(prefix, n) ==
    { prefix \o <<".">> \o toLowerCase(n),
      prefix \o <<".">> \o Str_species \o n,
      prefix \o <<".">> \o Str_species \o <<".">> \o toLowerCase(n) }

KeyUniverse ==
    UNION {KeyForms(p, n) : p \in KeyPrefixes, n \in NameSpellings}
    \cup KeyForms(Str_meatballcraft, Str_Rocky)

ReferenceMods == {Str_ExtraBees, Str_MagicBees, Str_MeatballCraft}

(* Mod:Name references, a reference with a second colon, one without any,  *)
(* the name of an inherited property, and the absent reference             *)
ReferenceUniverse ==
    {m \o <<":">> \o n : m \in ReferenceMods, n \in {Str_Rocky, Str_A_B}}
    \cup { Str_ExtraBees \o <<":">> \o Str_Rocky \o <<":">> \o Str_A_B,
           Str_Rocky, Str_constructor, <<>> }

(* the records differ from key to key                                      *)
RecordAt(key) == [mod |-> Str_Forestry, name |-> key]

RecordSet(keys) == [k \in keys |-> RecordAt(k)]

KeySets == {Range(s) : s \in SeqsUpTo(KeyUniverse, MaxKeys)}

(* one call findBee(identifier); it can be made again                      *)
CallFindBee ==
    /\ phase \in {"resolve", "resolved"}
    /\ found' = findBee(merged.bees, identifier)
    /\ phase' = "resolved"
    /\ UNCHANGED <<fetchVars, toolVars, appVars, inputVars, beeData, relaxVars, hierarchyVars, queryVars,
                   intermediateData, merged, identifier, mutationGroups,
                   mutationIndex, skippedMutationsCount, builderWarnings,
                   sortedGroups, parserVars>>

(* the client-side pipeline is not part of the build scripts               *)
ClientIdle ==
    /\ breedingPairs = <<>>
    /\ beesKeys = <<>>
    /\ beeData = EmptyData
    /\ NotStarted
    /\ nodes = <<>>
    /\ links = <<>>
    /\ nodeMap = <<>>
    /\ NoQuery
    /\ LoaderIdle
    /\ AppConstructed

InitResolve ==
    /\ phase = "resolve"
    /\ ClientIdle
    /\ ToolsIdle
    /\ intermediateData = <<>>
    /\ \E K \in KeySets : merged = [bees |-> RecordSet(K), mutations |-> <<>>]
    /\ identifier \in ReferenceUniverse \cup DOMAIN merged.bees
    /\ found = Null
    /\ mutationGroups = <<>>
    /\ mutationIndex = 0
    /\ skippedMutationsCount = 0
    /\ builderWarnings = <<>>
    /\ sortedGroups = <<>>
    /\ ParserIdle

NextResolve == CallFindBee

SpecResolve == InitResolve /\ [][NextResolve]_vars

----------------------------------------------------------------------------
(* Claims about findBee                                                    *)

Resolved == phase = "resolved"

IsKey(key) == key \in DOMAIN merged.bees

(* a reference of the shape Mod:Name                                       *)
IsModName(id) == Len(split(id, ":")) = 2

ModOf(id) == split(id, ":")[1]

NameOf(id) == split(id, ":")[2]

(* the mod token mapped through the fixed table                            *)
ConventionPrefix(mod) ==
    IF toLowerCase(mod) = Str_meatballcraft THEN Str_gendustry
    ELSE toLowerCase(mod)

(* the three candidate keys of a Mod:Name reference, in priority order     *)
CandidateKeys(id) ==
    << ConventionPrefix(ModOf(id)) \o <<".">> \o toLowerCase(NameOf(id)),
       ConventionPrefix(ModOf(id)) \o <<".">> \o Str_species \o NameOf(id),
       ConventionPrefix(ModOf(id)) \o <<".">> \o Str_species \o <<".">>
           \o toLowerCase(NameOf(id)) >>

FirstCandidate(id, i) ==
    /\ IsKey(CandidateKeys(id)[i])
    /\ \A j \in 1..(i - 1) : ~IsKey(CandidateKeys(id)[j])

Str_ExtraBees_Rocky == Str_ExtraBees \o <<":">> \o Str_Rocky

Str_extrabees_speciesRocky == Str_extrabees \o <<".">> \o Str_species \o Str_Rocky

(* C17: findBee resolves by priority, first match wins: a reference that   *)
(* is itself a key of the record set gets that key's record; otherwise a   *)
(* reference Mod:Name gets the record of the first existing key among      *)
(* prefix.lowercase(Name), prefix.species+Name and                         *)
(* prefix.species.lowercase(Name), with prefix the mod token mapped        *)
(* through the fixed table; ExtraBees:Rocky resolves to                    *)
(* extrabees.speciesRocky.                                                 *)
C17_ResolvesByPriority ==
    Resolved =>
        /\ IsKey(identifier) => found = merged.bees[identifier]
        /\ (~IsKey(identifier) /\ IsModName(identifier)) =>
              \A i \in 1..3 :
                  FirstCandidate(identifier, i) =>
                      found = merged.bees[CandidateKeys(identifier)[i]]
        /\ ( /\ identifier = Str_ExtraBees_Rocky
             /\ DOMAIN merged.bees = {Str_extrabees_speciesRocky} )
              => found = merged.bees[Str_extrabees_speciesRocky]

(* two candidate keys of ExtraBees:Rocky exist and the earlier one won     *)
C17_Witness ==
    /\ Resolved
    /\ identifier = Str_ExtraBees_Rocky
    /\ DOMAIN merged.bees =
          {Str_extrabees_speciesRocky, Str_extrabees \o <<".">> \o toLowerCase(Str_Rocky)}
    /\ found = merged.bees[Str_extrabees \o <<".">> \o toLowerCase(Str_Rocky)]

(* every key findBee may try for a reference: the three patterns over the  *)
(* name as written, with spaces for the underscores, and with the          *)
(* underscores removed (case kept or lowered after the first character)    *)
RetrySpellings(name) ==
    { name, nameWithSpace(name), StripUnderscores(name),
      charAt0(StripUnderscores(name)) \o toLowerCase(slice1(StripUnderscores(name))) }

AllCandidateKeys(id) ==
    IF StrIncludes(id, ":")
    THEN UNION {KeyForms(ConventionPrefix(ModOf(id)), n) : n \in RetrySpellings(NameOf(id))}
    ELSE {}

IsRecordOfSet(r) == \E k \in DOMAIN merged.bees : r = merged.bees[k]

(* C18: for every reference that is a string or absent, findBee returns a  *)
(* record of the record set or null, and a record only when the reference  *)
(* or one of its candidate keys is a key of the record set.                *)
C18_RecordOrNull ==
    Resolved =>
        /\ found = Null \/ IsRecordOfSet(found)
        /\ found # Null =>
              \/ IsKey(identifier)
              \/ \E k \in AllCandidateKeys(identifier) : IsKey(k)

----------------------------------------------------------------------------
(* JavaScript values and objects of the raw mutation records               *)
(*                                                                         *)
(* A value carries its type; an object is a function from its property     *)
(* names to values; reading a property the object does not have gives      *)
(* undefined.                                                              *)

Undefined == [t |-> "undefined"]

Num(n) == [t |-> "number", v |-> n]

Bool(b) == [t |-> "boolean", v |-> b]

Arr(s) == [t |-> "array", v |-> s]

(* the truthiness test of if (value)                                       *)
Truthy(x) ==
    CASE x.t = "undefined" -> FALSE
      [] x.t = "number" -> x.v # 0
      [] x.t = "boolean" -> x.v
      [] OTHER -> TRUE

EmptyObject == <<>>

Get(obj, key) == IF key \in DOMAIN obj THEN obj[key] ELSE Undefined

Put(obj, key, value) ==
    [k \in DOMAIN obj \cup {key} |-> IF k = key THEN value ELSE obj[k]]

(* if (conditions.from) requirements.to = conditions.from                  *)
CopyIfTruthy(req, conditions, from, to) ==
    IF Truthy(Get(conditions, from))
    THEN Put(req, to, Get(conditions, from))
    ELSE req

(* the condition properties copied under their own name, in code order,    *)
(* up to and after the two that are not                                    *)
CopiedBeforeBlock == <<"temperature", "humidity", "biome", "dateRange", "timeOfDay">>

CopiedAfterBlock == <<"moonPhase", "moonPhaseBonus", "thaumcraftVis">>

RECURSIVE CopyAll(_, _, _)
CopyAll(req, conditions, names) ==
    IF names = <<>> THEN req
    ELSE CopyAll(CopyIfTruthy(req, conditions, Head(names), Head(names)),
                 conditions, Tail(names))

(* requirements.block is read from conditions.requiredBlock                *)
CopyBlock(req, conditions) == CopyIfTruthy(req, conditions, "requiredBlock", "block")

(* requirements.requireExplosion = true                                    *)
CopyExplosion(req, conditions) ==
    IF Truthy(Get(conditions, "requireExplosion"))
    THEN Put(req, "requireExplosion", Bool(TRUE))
    ELSE req

(* the requirements object of a child entry, filled from the conditions    *)
Requirements(conditions) ==
    LET r1 == CopyAll(EmptyObject, conditions, CopiedBeforeBlock)
        r2 == CopyBlock(r1, conditions)
        r3 == CopyAll(r2, conditions, CopiedAfterBlock)
        r4 == CopyExplosion(r3, conditions)
        r5 == CopyIfTruthy(r4, conditions, "requirePlayer", "requirePlayer")
    IN CopyIfTruthy(r5, conditions, "dimension", "dimension")

(* mutation.conditions && Object.keys(mutation.conditions).length > 0      *)
HasConditions(mutation) ==
    /\ "conditions" \in DOMAIN mutation
    /\ DOMAIN mutation.conditions # {}

(* the child entry built for a resolved record; species is the offspring's *)
(* Mod:Name string                                                         *)
ChildEntry(species, mutation) ==
    LET base == [species |-> species, probability |-> [num |-> mutation.chance, den |-> 100]]
        withReq == IF HasConditions(mutation)
                   THEN Put(base, "requirements", Requirements(mutation.conditions))
                   ELSE base
    IN IF HasConditions(mutation) /\ Truthy(Get(mutation.conditions, "isSecret"))
       THEN Put(withReq, "isSecret", TRUE)
       ELSE withReq

----------------------------------------------------------------------------
(* The two string orderings the output builder sorts with                  *)

(* UTF-16 code units of the characters in use                              *)
CharCode(c) ==
    CASE IsUpper(c) -> 64 + LetterIndex(c)
      [] IsLower(c) -> 96 + LetterIndex(c)
      [] c = " " -> 32
      [] c = "." -> 46
      [] c = ":" -> 58
      [] c = "_" -> 95
      [] c = "|" -> 124

(* the comparison of Array.prototype.sort() without a comparator: code     *)
(* unit by code unit, a proper prefix first; -1, 0 or 1                    *)
RECURSIVE CodeUnitCompare(_, _)
CodeUnitCompare(a, b) ==
    IF a = <<>> /\ b = <<>> THEN 0
    ELSE IF a = <<>> THEN -1
    ELSE IF b = <<>> THEN 1
    ELSE IF CharCode(Head(a)) < CharCode(Head(b)) THEN -1
    ELSE IF CharCode(Head(a)) > CharCode(Head(b)) THEN 1
    ELSE CodeUnitCompare(Tail(a), Tail(b))

(* String.prototype.localeCompare under the default (root) collation:      *)
(* punctuation sorts before letters, letters compare without regard to     *)
(* case, and case decides only between strings that are otherwise equal,   *)
(* lower case first                                                        *)
PrimaryWeight(c) ==
    CASE IsUpper(c) \/ IsLower(c) -> 10 + LetterIndex(c)
      [] c = " " -> 1
      [] c = "_" -> 2
      [] c = ":" -> 3
      [] c = "." -> 4
      [] c = "|" -> 5

RECURSIVE PrimaryCompare(_, _)
PrimaryCompare(a, b) ==
    IF a = <<>> /\ b = <<>> THEN 0
    ELSE IF a = <<>> THEN -1
    ELSE IF b = <<>> THEN 1
    ELSE IF PrimaryWeight(Head(a)) < PrimaryWeight(Head(b)) THEN -1
    ELSE IF PrimaryWeight(Head(a)) > PrimaryWeight(Head(b)) THEN 1
    ELSE PrimaryCompare(Tail(a), Tail(b))

RECURSIVE CaseCompare(_, _)
CaseCompare(a, b) ==
    IF a = <<>> \/ b = <<>> THEN 0
    ELSE IF IsLower(Head(a)) /\ IsUpper(Head(b)) THEN -1
    ELSE IF IsUpper(Head(a)) /\ IsLower(Head(b)) THEN 1
    ELSE CaseCompare(Tail(a), Tail(b))

localeCompare(a, b) ==
    IF PrimaryCompare(a, b) # 0 THEN PrimaryCompare(a, b) ELSE CaseCompare(a, b)

(* [parent1, parent2].sort()                                               *)
SortPair(p1, p2) ==
    IF CodeUnitCompare(p2, p1) < 0 THEN <<p2, p1>> ELSE <<p1, p2>>

(* array.sort(compare) for a comparator Cmp that is a total preorder: the  *)
(* sort is stable, so an element goes behind the elements below it and     *)
(* behind the equal elements that came before it                           *)
SortWith(arr, Cmp(_, _)) ==
    LET Before(j, i) ==
            \/ Cmp(arr[j], arr[i]) < 0
            \/ Cmp(arr[j], arr[i]) = 0 /\ j < i
        Position(i) == 1 + Cardinality({j \in DOMAIN arr : Before(j, i)})
    IN [k \in DOMAIN arr |-> arr[CHOOSE i \in DOMAIN arr : Position(i) = k]]

(* the comparator of the groups: first parent, then second parent          *)
CompareGroups(a, b) ==
    IF localeCompare(a.parents[1], b.parents[1]) # 0
    THEN localeCompare(a.parents[1], b.parents[1])
    ELSE localeCompare(a.parents[2], b.parents[2])

(* the comparator of the children of a group                               *)
CompareChildren(a, b) == localeCompare(a.species, b.species)

----------------------------------------------------------------------------
(* buildBreedingPairsJsonc                                                 *)
(*                                                                         *)
(* A raw mutation is an object with parent1, parent2, offspring, chance    *)
(* and optionally conditions and source.  mutationGroups is the Map in     *)
(* insertion order: a sequence of [key, parents, children].                *)

(* `${bee.mod}:${bee.name}`                                                *)
PublicName(bee) == bee.mod \o <<":">> \o bee.name

(* !parent1Bee || !parent2Bee || !offspringBee                             *)
AnyMissing(parent1Bee, parent2Bee, offspringBee) ==
    parent1Bee = Null \/ parent2Bee = Null \/ offspringBee = Null

(* the references named after "Missing:" in the warning                    *)
MissingList(mutation, parent1Bee, parent2Bee, offspringBee) ==
    (IF parent1Bee = Null THEN << <<"parent1", mutation.parent1>> >> ELSE <<>>)
    \o (IF parent2Bee = Null THEN << <<"parent2", mutation.parent2>> >> ELSE <<>>)
    \o (IF offspringBee = Null THEN << <<"offspring", mutation.offspring>> >> ELSE <<>>)

(* path.resolve(file): the path made absolute from the working directory   *)
PathResolve(file) == <<"cwd", file>>

(* the console.warn of a skipped record                                    *)
SkipWarning(mutation, parent1Bee, parent2Bee, offspringBee) ==
    IF "source" \in DOMAIN mutation
    THEN [skipping |-> mutation.offspring,
          missing |-> MissingList(mutation, parent1Bee, parent2Bee, offspringBee),
          location |-> [fullPath |-> PathResolve(mutation.source.file),
                        line |-> mutation.source.line]]
    ELSE [skipping |-> mutation.offspring, noSourceLocation |-> TRUE]

(* a faulty variant: a skipped record ends the loop                        *)
AfterSkipStop(index, len) == len + 1

(* the return of the forEach callback: the next record is processed        *)
AfterSkip(index, len) == index + 1

(* a faulty variant: the key keeps the order the record names the parents  *)
(* in                                                                      *)
ParentKeyUnsorted(parent1, parent2) == join(<<parent1, parent2>>, <<"|">>)

(* [parent1, parent2].sort().join("|")                                     *)
ParentKey(parent1, parent2) == join(SortPair(parent1, parent2), <<"|">>)

HasGroup(groups, key) == \E i \in DOMAIN groups : groups[i].key = key

(* mutationGroups.set(parentKey, {parents: [...].sort(), children: []})    *)
(* unless the Map has the key                                              *)
EnsureGroup(groups, parent1, parent2) ==
    IF HasGroup(groups, ParentKey(parent1, parent2)) THEN groups
    ELSE Append(groups, [key |-> ParentKey(parent1, parent2),
                         parents |-> SortPair(parent1, parent2),
                         children |-> <<>>])

(* mutationGroups.get(parentKey).children.push(childEntry)                 *)
PushChild(groups, key, childEntry) ==
    [i \in DOMAIN groups |->
        IF groups[i].key = key
        THEN [groups[i] EXCEPT !.children = Append(@, childEntry)]
        ELSE groups[i]]

(* one turn of merged.mutations.forEach                                    *)
ProcessMutation ==
    /\ phase = "pairs"
    /\ mutationIndex <= Len(merged.mutations)
    /\ LET mutation == merged.mutations[mutationIndex]
           parent1Bee == findBee(merged.bees, mutation.parent1)
           parent2Bee == findBee(merged.bees, mutation.parent2)
           offspringBee == findBee(merged.bees, mutation.offspring)
       IN IF AnyMissing(parent1Bee, parent2Bee, offspringBee)
          THEN /\ skippedMutationsCount' = skippedMutationsCount + 1
               /\ builderWarnings' =
                     Append(builderWarnings,
                            SkipWarning(mutation, parent1Bee, parent2Bee, offspringBee))
               /\ mutationIndex' = AfterSkip(mutationIndex, Len(merged.mutations))
               /\ UNCHANGED mutationGroups
          ELSE /\ mutationGroups' =
                     PushChild(EnsureGroup(mutationGroups, PublicName(parent1Bee),
                                           PublicName(parent2Bee)),
                               ParentKey(PublicName(parent1Bee), PublicName(parent2Bee)),
                               ChildEntry(PublicName(offspringBee), mutation))
               /\ mutationIndex' = mutationIndex + 1
               /\ UNCHANGED <<skippedMutationsCount, builderWarnings>>
    /\ UNCHANGED <<fetchVars, toolVars, appVars, phase, inputVars, beeData, relaxVars, hierarchyVars, queryVars,
                   intermediateData, merged, identifier, found, sortedGroups,
                   parserVars>>

(* group.children.sort(...) sorts the array of the group in place          *)
WithSortedChildren(group) ==
    [group EXCEPT !.children = SortWith(group.children, CompareChildren)]

(* after the loop: Array.from(mutationGroups.values()).sort(...), then the *)
(* children of every group are sorted and the groups are returned          *)
SortGroups ==
    /\ phase = "pairs"
    /\ mutationIndex > Len(merged.mutations)
    /\ mutationGroups' = [i \in DOMAIN mutationGroups |->
                             WithSortedChildren(mutationGroups[i])]
    /\ sortedGroups' =
          LET sorted == SortWith(mutationGroups, CompareGroups)
          IN [i \in DOMAIN sorted |->
                 [parents |-> sorted[i].parents,
                  children |-> WithSortedChildren(sorted[i]).children]]
    /\ phase' = "pairsDone"
    /\ UNCHANGED <<fetchVars, toolVars, appVars, inputVars, beeData, relaxVars, hierarchyVars, queryVars,
                   intermediateData, merged, identifier, found, mutationIndex,
                   skippedMutationsCount, builderWarnings, parserVars>>

----------------------------------------------------------------------------
(* The loader of mutations.jsonc (beeProcessor.js, loadBeeData and          *)
(* convertBreedingPairsToMutations) on the files the output builder writes *)

(* the comparator of buildBeesJsonc: by mod, then by name                  *)
CompareBees(a, b) ==
    IF localeCompare(a.mod, b.mod) # 0 THEN localeCompare(a.mod, b.mod)
    ELSE localeCompare(a.name, b.name)

(* the records of merged.bees as an array                                  *)
RECURSIVE SetToSeq(_)
SetToSeq(S) ==
    IF S = {} THEN <<>>
    ELSE LET x == CHOOSE y \in S : TRUE IN <<x>> \o SetToSeq(S \ {x})

(* the keys of bees.jsonc in file order: output[`${mod}:${name}`] is set   *)
(* for the records in sorted order                                         *)
BeesJsoncKeys(bees) ==
    LET sortedBees == SortWith(SetToSeq({bees[uid] : uid \in DOMAIN bees}), CompareBees)
    IN Dedup([i \in DOMAIN sortedBees |-> PublicName(sortedBees[i])])

(* the decimal digits: an array index as a property name                   *)
Digits == <<"0", "1", "2", "3", "4", "5", "6", "7", "8", "9">>

(* Object.entries(array): the pairs [String(index), element]               *)
ObjectEntries(arr) == [i \in DOMAIN arr |-> <<<<Digits[i]>>, arr[i]>>]

(* Object.entries(pair.children).forEach(([childId, childData]) => ...):   *)
(* the body is run with the property name as childId                       *)
RECURSIVE ProcessChildEntries(_, _, _, _)
ProcessChildEntries(data, parent1, parent2, entries) ==
    IF entries = <<>> THEN data
    ELSE ProcessChildEntries(ProcessChild(data, parent1, parent2, Head(entries)[1]),
                             parent1, parent2, Tail(entries))

RECURSIVE ProcessPairsEntries(_, _)
ProcessPairsEntries(data, pairs) ==
    IF pairs = <<>> THEN data
    ELSE ProcessPairsEntries(
             ProcessChildEntries(data, Head(pairs).parents[1], Head(pairs).parents[2],
                                 ObjectEntries(Head(pairs).children)),
             Tail(pairs))

ConvertMutationsJsonc(pairs, ks) ==
    ProcessPairsEntries(InitBees(EmptyData, ks), pairs)

(* loadBeeData on the two files written from merged                        *)
LoadMutationsJsonc ==
    /\ phase = "pairsDone"
    /\ beeData' = ConvertMutationsJsonc(sortedGroups, BeesJsoncKeys(merged.bees))
    /\ phase' = "loaded"
    /\ UNCHANGED <<fetchVars, toolVars, appVars, inputVars, relaxVars, hierarchyVars, queryVars, scriptVars>>

----------------------------------------------------------------------------
(* Specification of buildBreedingPairsJsonc on small mutation lists        *)

MaxMutations == 2

Str_Zinc == <<"Z", "i", "n", "c">>

Str_ash == <<"a", "s", "h">>

(* the merged record set: three species of two mods                        *)
PairBees ==
    (Str_extrabees_speciesRocky :> [mod |-> Str_ExtraBees, name |-> Str_Rocky])
    @@ (Str_gendustry \o <<".">> \o toLowerCase(Str_Zinc)
            :> [mod |-> Str_MeatballCraft, name |-> Str_Zinc])
    @@ (Str_gendustry \o <<".">> \o Str_ash
            :> [mod |-> Str_MeatballCraft, name |-> Str_ash])

(* references: Mod:Name forms, a uid, and one that matches nothing         *)
RefRocky == Str_ExtraBees_Rocky

RefZinc == Str_MeatballCraft \o <<":">> \o Str_Zinc

RefAsh == Str_gendustry \o <<".">> \o Str_ash

RefMissing == Str_MagicBees \o <<":">> \o Str_Rocky

SourceLocation == [file |-> "EnumBeeSpecies.java", line |-> 12]

(* conditions objects as the parsers and the documents write them          *)
ConditionsUniverse ==
    { EmptyObject,
      [temperature |-> Arr(<<"HOT">>), humidity |-> Arr(<<"DAMP">>)],
      [block |-> Arr(<<"minecraft:stone">>)],
      [requiredBlock |-> Arr(<<"minecraft:stone">>)],
      [dimension |-> Num(0)],
      [dimension |-> Num(-1)],
      [isSecret |-> Bool(TRUE)] }

RawMutation(a, b, c) ==
    [parent1 |-> a, parent2 |-> b, offspring |-> c, chance |-> 10,
     source |-> SourceLocation]

(* records that resolve, over both orders of a pair and a self-pair;       *)
(* records with one or every reference unresolved; records with            *)
(* conditions; records without a source location or without offspring      *)
MutationUniverse ==
    { RawMutation(RefZinc, RefAsh, RefZinc), RawMutation(RefZinc, RefAsh, RefAsh),
      RawMutation(RefAsh, RefZinc, RefAsh), RawMutation(RefZinc, RefZinc, RefAsh) }
    \cup
    { RawMutation(RefMissing, RefZinc, RefAsh), RawMutation(RefZinc, RefMissing, RefAsh),
      RawMutation(RefZinc, RefAsh, RefMissing),
      RawMutation(RefMissing, RefMissing, RefMissing),
      RawMutation(RefZinc, RefAsh, <<>>) }
    \cup
    { [parent1 |-> RefRocky, parent2 |-> RefZinc, offspring |-> RefAsh, chance |-> 10,
       conditions |-> c, source |-> SourceLocation] : c \in ConditionsUniverse }
    \cup
    { [parent1 |-> RefMissing, parent2 |-> RefZinc, offspring |-> RefAsh, chance |-> 10],
      [parent1 |-> RefZinc, parent2 |-> RefAsh, offspring |-> RefRocky, chance |-> 20] }

InitPairs ==
    /\ phase = "pairs"
    /\ ClientIdle
    /\ ToolsIdle
    /\ intermediateData = <<>>
    /\ \E ms \in SeqsUpTo(MutationUniverse, MaxMutations) :
          merged = [bees |-> PairBees, mutations |-> ms]
    /\ identifier = <<>>
    /\ found = Null
    /\ mutationGroups = <<>>
    /\ mutationIndex = 1
    /\ skippedMutationsCount = 0
    /\ builderWarnings = <<>>
    /\ sortedGroups = <<>>
    /\ ParserIdle

NextPairs == ProcessMutation \/ SortGroups \/ LoadMutationsJsonc

SpecPairs == InitPairs /\ [][NextPairs]_vars

----------------------------------------------------------------------------
(* Claims about buildBreedingPairsJsonc                                    *)

InPairs == phase \in {"pairs", "pairsDone"}

PairsDone == phase = "pairsDone"

RawMutations == merged.mutations

Resolves(ref) == findBee(merged.bees, ref) # Null

AllResolve(m) == Resolves(m.parent1) /\ Resolves(m.parent2) /\ Resolves(m.offspring)

(* the Mod:Name string of the species a reference resolves to              *)
SpeciesOf(ref) == PublicName(findBee(merged.bees, ref))

SpeciesNames == {PublicName(merged.bees[k]) : k \in DOMAIN merged.bees}

(* the records the forEach has been through                                *)
Processed == 1..(mutationIndex - 1)

ResolvedRecords == {i \in Processed : AllResolve(RawMutations[i])}

(* record i belongs to the group of parents ps and has offspring s         *)
ContributesTo(i, ps, s) ==
    /\ {SpeciesOf(RawMutations[i].parent1), SpeciesOf(RawMutations[i].parent2)} = Range(ps)
    /\ SpeciesOf(RawMutations[i].offspring) = s

EntriesOf(children, s) == {k \in DOMAIN children : children[k].species = s}

GroupsOfPair(groups, i) ==
    {j \in DOMAIN groups :
        Range(groups[j].parents) =
            {SpeciesOf(RawMutations[i].parent1), SpeciesOf(RawMutations[i].parent2)}}

(* C11: a raw mutation whose parent1, parent2 and offspring all resolve    *)
(* contributes exactly one child entry to exactly one group, a record with *)
(* an unresolved reference contributes nothing, and an unresolved record   *)
(* never stops the remaining records: in every group the entries of a      *)
(* species are as many as the processed resolved records of that pair and  *)
(* offspring, every skipped record is counted, and the loop ends only      *)
(* after the last record.                                                  *)
C11_OneEntryPerResolvedRecord ==
    InPairs =>
        /\ \A j \in DOMAIN mutationGroups : \A s \in SpeciesNames :
              Cardinality(EntriesOf(mutationGroups[j].children, s))
                 = Cardinality({i \in ResolvedRecords :
                                   ContributesTo(i, mutationGroups[j].parents, s)})
        /\ \A i \in ResolvedRecords : Cardinality(GroupsOfPair(mutationGroups, i)) = 1
        /\ skippedMutationsCount = Cardinality(Processed \ ResolvedRecords)
        /\ PairsDone =>
              /\ Processed = DOMAIN RawMutations
              /\ \A j \in DOMAIN sortedGroups : \A s \in SpeciesNames :
                    Cardinality(EntriesOf(sortedGroups[j].children, s))
                       = Cardinality({i \in ResolvedRecords :
                                         ContributesTo(i, sortedGroups[j].parents, s)})
              /\ \A i \in ResolvedRecords : Cardinality(GroupsOfPair(sortedGroups, i)) = 1

(* an unresolved record came first and the record after it was aggregated  *)
C11_Witness ==
    /\ PairsDone
    /\ Len(RawMutations) = 2
    /\ ~AllResolve(RawMutations[1])
    /\ AllResolve(RawMutations[2])
    /\ skippedMutationsCount = 1
    /\ Len(sortedGroups) = 1
    /\ Len(sortedGroups[1].children) = 1

SamePair(i, k) ==
    {SpeciesOf(RawMutations[i].parent1), SpeciesOf(RawMutations[i].parent2)}
       = {SpeciesOf(RawMutations[k].parent1), SpeciesOf(RawMutations[k].parent2)}

IsSelfPair(i) ==
    SpeciesOf(RawMutations[i].parent1) = SpeciesOf(RawMutations[i].parent2)

(* the groups array holds exactly one group for the parents of record i,   *)
(* and that group's parents array is the sorted pair                       *)
OneSortedGroup(groups, i) ==
    /\ Cardinality(GroupsOfPair(groups, i)) = 1
    /\ \A j \in GroupsOfPair(groups, i) :
          /\ Len(groups[j].parents) = 2
          /\ CodeUnitCompare(groups[j].parents[1], groups[j].parents[2]) <= 0
          /\ \E s \in SpeciesNames : ContributesTo(i, groups[j].parents, s)
                                       /\ EntriesOf(groups[j].children, s) # {}

NoTwoGroupsOfOnePair(groups) ==
    \A j, k \in DOMAIN groups :
        Range(groups[j].parents) = Range(groups[k].parents) => j = k

(* C12: records listing the parents as (A, B) and as (B, A) are aggregated *)
(* into one and the same group, whose parents array is sorted; a record    *)
(* with A = B is kept, in the group of the pair (A, A); and the output     *)
(* never holds two groups of the same unordered parent pair.               *)
C12_ParentOrderIrrelevant ==
    InPairs =>
        /\ \A i \in ResolvedRecords : OneSortedGroup(mutationGroups, i)
        /\ NoTwoGroupsOfOnePair(mutationGroups)
        /\ PairsDone =>
              /\ \A i \in ResolvedRecords : OneSortedGroup(sortedGroups, i)
              /\ NoTwoGroupsOfOnePair(sortedGroups)
              /\ \A i, k \in ResolvedRecords :
                    SamePair(i, k) =>
                        GroupsOfPair(sortedGroups, i) = GroupsOfPair(sortedGroups, k)

(* (A, B), then (B, A): one group with two entries; or a self-pair kept    *)
C12_Witness ==
    /\ PairsDone
    /\ Len(RawMutations) = 2
    /\ ResolvedRecords = {1, 2}
    /\ RawMutations[1].parent1 = RawMutations[2].parent2
    /\ RawMutations[1].parent2 = RawMutations[2].parent1
    /\ ~IsSelfPair(1)
    /\ Len(sortedGroups) = 1
    /\ Len(sortedGroups[1].children) = 2

RequirementsOf(entry) ==
    IF "requirements" \in DOMAIN entry THEN entry.requirements ELSE EmptyObject

NoDuplicateEntries(groups) ==
    \A j \in DOMAIN groups : \A k, l \in DOMAIN groups[j].children :
        ( /\ groups[j].children[k].species = groups[j].children[l].species
          /\ RequirementsOf(groups[j].children[k]) = RequirementsOf(groups[j].children[l]) )
        => k = l

(* C13: within every group no two child entries have both the same species *)
(* and the same requirement set; a raw mutation repeated for the same      *)
(* parent pair with the same offspring and identical conditions collapses  *)
(* into one child entry.                                                   *)
C13_NoDuplicateEntries ==
    InPairs =>
        /\ NoDuplicateEntries(mutationGroups)
        /\ PairsDone => NoDuplicateEntries(sortedGroups)

(* the condition fields that are carried over                              *)
CarriedFields ==
    {"temperature", "humidity", "biome", "block", "moonPhase", "moonPhaseBonus",
     "thaumcraftVis", "requireExplosion", "requirePlayer", "dimension"}

Carries(entry, conditions) ==
    \A f \in CarriedFields \cap DOMAIN conditions :
        /\ f \in DOMAIN RequirementsOf(entry)
        /\ RequirementsOf(entry)[f] = conditions[f]

(* C14: every condition field present in the raw conditions (temperature,  *)
(* humidity, biome, block, moonPhase, moonPhaseBonus, thaumcraftVis,        *)
(* requireExplosion, requirePlayer, dimension, including the block key of   *)
(* the intermediate format and a dimension of 0) appears with the same      *)
(* value in the requirements of the child entry made from the record.       *)
C14_ConditionsCarried ==
    InPairs =>
        \A i \in ResolvedRecords :
            "conditions" \in DOMAIN RawMutations[i] =>
                \E j \in GroupsOfPair(mutationGroups, i) :
                    \E k \in DOMAIN mutationGroups[j].children :
                        /\ mutationGroups[j].children[k].species
                              = SpeciesOf(RawMutations[i].offspring)
                        /\ Carries(mutationGroups[j].children[k],
                                   RawMutations[i].conditions)

Ascending(seq, Cmp(_, _)) ==
    \A i \in 1..(Len(seq) - 1) : Cmp(seq[i], seq[i + 1]) <= 0

(* the groups ascend by (parents[0], parents[1]), the children of every    *)
(* group by species, and parents[0] is not above parents[1], all under Cmp *)
SortedUnder(groups, Cmp(_, _)) ==
    LET ByParents(a, b) ==
            IF Cmp(a.parents[1], b.parents[1]) # 0
            THEN Cmp(a.parents[1], b.parents[1])
            ELSE Cmp(a.parents[2], b.parents[2])
        BySpecies(a, b) == Cmp(a.species, b.species)
    IN /\ Ascending(groups, ByParents)
       /\ \A j \in DOMAIN groups :
             /\ Ascending(groups[j].children, BySpecies)
             /\ Cmp(groups[j].parents[1], groups[j].parents[2]) <= 0

(* C15: the output is sorted: groups ascend by (parents[0], parents[1]),   *)
(* the children of a group ascend by species, all under one and the same   *)
(* string ordering, which is also the ordering under which                 *)
(* parents[0] <= parents[1].                                               *)
C15_OneOrdering ==
    PairsDone =>
        \/ SortedUnder(sortedGroups, CodeUnitCompare)
        \/ SortedUnder(sortedGroups, localeCompare)

----------------------------------------------------------------------------
(* buildOutput: the merge of the per-mod parse results                     *)

(* Object.assign(target, source): every own property of source is written  *)
(* to target, over whatever target held under that key                     *)
ObjectAssign(target, source) ==
    [k \in DOMAIN target \cup DOMAIN source |->
        IF k \in DOMAIN source THEN source[k] ELSE target[k]]

(* one turn of intermediateData.forEach                                    *)
MergeOne(m, data) ==
    [bees |-> ObjectAssign(m.bees, data.bees),
     mutations |-> m.mutations \o data.mutations]

RECURSIVE MergeAll(_, _)
MergeAll(m, datas) ==
    IF datas = <<>> THEN m ELSE MergeAll(MergeOne(m, Head(datas)), Tail(datas))

(* const merged = {bees: {}, mutations: [], ...}                           *)
EmptyMerged == [bees |-> EmptyObject, mutations |-> <<>>]

(* the forEach of buildOutput; it writes no diagnostic                     *)
MergeIntermediateData ==
    /\ phase = "merge"
    /\ merged' = MergeAll(EmptyMerged, intermediateData)
    /\ phase' = "merged"
    /\ UNCHANGED <<fetchVars, toolVars, appVars, inputVars, beeData, relaxVars, hierarchyVars, queryVars,
                   intermediateData, identifier, found, mutationGroups,
                   mutationIndex, skippedMutationsCount, builderWarnings,
                   sortedGroups, parserVars>>

----------------------------------------------------------------------------
(* Specification of the merge on small parse results                       *)

MaxMods == 2

(* the CareerBees parser: uid = `careerbees.species.${name}` and            *)
(* name: name.charAt(0).toUpperCase() + name.slice(1)                      *)
careerBeeUid(name) == Str_careerbees \o <<".">> \o Str_species \o <<".">> \o name

careerBeeName(name) == toUpperCase(charAt0(name)) \o slice1(name)

(* the names two declarations of CareerBeeSpecies.java may carry           *)
CareerNames == {Str_Rocky, toLowerCase(Str_Rocky)}

(* uids the parsers produce, and the name each record carries              *)
MergeUids ==
    {careerBeeUid(n) : n \in CareerNames} \cup {Str_gendustry \o <<".">> \o Str_ash}

NameAt(uid) ==
    IF uid = Str_gendustry \o <<".">> \o Str_ash THEN Str_ash
    ELSE careerBeeName(CHOOSE n \in CareerNames : careerBeeUid(n) = uid)

(* the parse result of one mod: its records carry the mod's name           *)
ModData(mod, uids, mutations) ==
    [bees |-> [k \in uids |-> [mod |-> mod, name |-> NameAt(k)]],
     mutations |-> mutations]

ModDataUniverse ==
    { ModData(mod, uids, ms) :
        mod \in {Str_CareerBees, Str_MeatballCraft},
        uids \in {K \in SUBSET MergeUids : Cardinality(K) <= 2},
        ms \in {<<>>, <<RawMutation(RefRocky, RefAsh, RefRocky)>>} }

InitMerge ==
    /\ phase = "merge"
    /\ ClientIdle
    /\ ToolsIdle
    /\ intermediateData \in SeqsUpTo(ModDataUniverse, MaxMods)
    /\ merged = EmptyMerged
    /\ identifier = <<>>
    /\ found = Null
    /\ mutationGroups = <<>>
    /\ mutationIndex = 0
    /\ skippedMutationsCount = 0
    /\ builderWarnings = <<>>
    /\ sortedGroups = <<>>
    /\ ParserIdle

(* output[key] = beeData: a new key is added at the end, an existing key   *)
(* keeps its place and gets the new value                                  *)
SetProperty(output, key, value) ==
    IF \E i \in DOMAIN output : output[i][1] = key
    THEN [i \in DOMAIN output |->
            IF output[i][1] = key THEN <<key, value>> ELSE output[i]]
    ELSE Append(output, <<key, value>>)

(* the object buildBeesJsonc makes of one record                           *)
BeeJsoncEntry(bee) ==
    [mod |-> bee.mod, name |-> bee.name, idealTemperature |-> <<>>,
     idealHumidity |-> <<>>, products |-> <<>>]

(* sortedBees.forEach(([uid, bee]) => output[`${bee.mod}:${bee.name}`] = ...) *)
RECURSIVE WriteBees(_, _)
WriteBees(output, sortedBees) ==
    IF sortedBees = <<>> THEN output
    ELSE WriteBees(SetProperty(output, PublicName(Head(sortedBees)),
                               BeeJsoncEntry(Head(sortedBees))),
                   Tail(sortedBees))

buildBeesJsonc(bees) ==
    LET uids == SetToSeq(DOMAIN bees)
    IN WriteBees(<<>>, SortWith([i \in DOMAIN uids |-> bees[uids[i]]], CompareBees))

(* buildOutput, after the merge: beesOutput = buildBeesJsonc(merged)       *)
BuildBeesJsonc ==
    /\ phase = "merged"
    /\ beesJsonc' = buildBeesJsonc(merged.bees)
    /\ phase' = "beesBuilt"
    /\ UNCHANGED <<fetchVars, appVars, inputVars, beeData, relaxVars, hierarchyVars,
                   queryVars, scriptVars, sourceFiles, throwingParsers, modsToInclude,
                   modIndex, buildLog>>

NextMerge == MergeIntermediateData \/ BuildBeesJsonc

SpecMerge == InitMerge /\ [][NextMerge]_vars

----------------------------------------------------------------------------
(* Claim about the merge                                                   *)

Merged == phase = "merged"

(* mods i and j, merged in this order, both define uid                     *)
Collide(i, j, uid) ==
    /\ i < j
    /\ uid \in DOMAIN intermediateData[i].bees
    /\ uid \in DOMAIN intermediateData[j].bees

(* a diagnostic that names the id and both mods                            *)
IsCollisionDiagnostic(w, uid, mod1, mod2) ==
    /\ "collision" \in DOMAIN w
    /\ w.collision = uid
    /\ w.mods = {mod1, mod2}

(* C16: when buildOutput merges the per-mod records into one set, an id    *)
(* defined by two mods is surfaced as a diagnostic that identifies both    *)
(* mods; the earlier record is not silently replaced by the later one.     *)
C16_CollisionSurfaced ==
    Merged =>
        \A i, j \in DOMAIN intermediateData : \A uid \in MergeUids :
            Collide(i, j, uid) =>
                \E k \in DOMAIN builderWarnings :
                    IsCollisionDiagnostic(builderWarnings[k], uid,
                                          intermediateData[i].bees[uid].mod,
                                          intermediateData[j].bees[uid].mod)

----------------------------------------------------------------------------
(* parseMagicBeesSpecies and parseCareerBeesSpecies                        *)
(*                                                                         *)
(* parserSource holds what the regular expressions match in the Java file: *)
(* species declarations [enumName, name, branch] and mutation statements   *)
(* [parent1, parent2, offspring, chance], whose references are \w+ tokens. *)
(* A species record is an object; its temporary property is written with   *)
(* Put and removed with Delete.                                            *)

Delete(obj, key) == [k \in DOMAIN obj \ {key} |-> obj[k]]

(* s.replace(/_/g, " ")                                                    *)
UnderscoresToSpaces(s) == [i \in DOMAIN s |-> IF s[i] = "_" THEN " " ELSE s[i]]

(* enumName.charAt(0) + enumName.slice(1).toLowerCase()                    *)
FirstKeptRestLower(s) == charAt0(s) \o toLowerCase(slice1(s))

(* parseBranchName of the CareerBees parser                                *)
parseBranchName(branch) ==
    IF branch # <<>> /\ branch[1] = ":" THEN Str_careerbees \o branch
    ELSE Str_careerbees \o <<":">> \o branch

SpeciesUid(kind, decl) ==
    IF kind = "MagicBees"
    THEN Str_magicbees \o <<".">> \o Str_species \o FirstKeptRestLower(decl.enumName)
    ELSE careerBeeUid(decl.name)

SpeciesRecord(kind, decl) ==
    IF kind = "MagicBees"
    THEN [mod |-> Str_MagicBees,
          name |-> charAt0(decl.enumName)
                      \o UnderscoresToSpaces(toLowerCase(slice1(decl.enumName))),
          branch |-> Str_magicbees \o <<":">> \o toLowerCase(decl.branch)]
    ELSE [mod |-> Str_CareerBees,
          name |-> careerBeeName(decl.name),
          branch |-> parseBranchName(decl.branch)]

(* result.bees[uid] = {...}; result.bees[uid]._enumName = enumName         *)
StoreSpecies(bees, kind, decl) ==
    [k \in DOMAIN bees \cup {SpeciesUid(kind, decl)} |->
        IF k = SpeciesUid(kind, decl)
        THEN Put(SpeciesRecord(kind, decl), "_enumName", decl.enumName)
        ELSE bees[k]]

HasEnumName(bee, ref) == "_enumName" \in DOMAIN bee /\ bee["_enumName"] = ref

(* ref.match(/^[A-Z_]+$/)                                                  *)
IsConstantName(ref) ==
    /\ ref # <<>>
    /\ \A i \in DOMAIN ref : IsUpper(ref[i]) \/ ref[i] = "_"

(* resolveSpeciesReference for a \w+ token: the uid of the species with    *)
(* that enum name, else a Forestry uid for a constant name, else the token *)
resolveSpeciesReference(ref, bees) ==
    IF \E uid \in DOMAIN bees : HasEnumName(bees[uid], ref)
    THEN CHOOSE uid \in DOMAIN bees : HasEnumName(bees[uid], ref)
    ELSE IF IsConstantName(ref)
    THEN Str_forestry \o <<".">> \o Str_species \o FirstKeptRestLower(ref)
    ELSE ref

ParsedMutation(statement, bees) ==
    [parent1 |-> resolveSpeciesReference(statement.parent1, bees),
     parent2 |-> resolveSpeciesReference(statement.parent2, bees),
     offspring |-> resolveSpeciesReference(statement.offspring, bees),
     chance |-> statement.chance]

(* result.branches[branchUID] = {name, scientific} for every bee.branch    *)
BranchEntry(branchUID) ==
    LET parts == split(branchUID, ":")
        name == parts[Len(parts)]
    IN [name |-> toUpperCase(charAt0(name)) \o slice1(name), scientific |-> name]

ExtractBranches(bees) ==
    [b \in {bees[uid].branch : uid \in DOMAIN bees} |-> BranchEntry(b)]

(* a faulty variant: the temporary property stays on the record            *)
CleanUpNothing(bee) == bee

(* delete bee._enumName                                                    *)
CleanUp(bee) == Delete(bee, "_enumName")

(* one match of the species pattern                                        *)
ParseSpeciesEntry ==
    /\ phase = "parse"
    /\ parserIndex <= Len(parserSource.species)
    /\ parserResult' =
          [parserResult EXCEPT
              !.bees = StoreSpecies(@, parserKind, parserSource.species[parserIndex])]
    /\ parserIndex' = parserIndex + 1
    /\ UNCHANGED <<fetchVars, toolVars, appVars, phase, inputVars, beeData, relaxVars, hierarchyVars, queryVars,
                   intermediateData, merged, identifier, found, mutationGroups,
                   mutationIndex, skippedMutationsCount, builderWarnings,
                   sortedGroups, parserKind, parserSource, parserReturned>>

(* one match of the mutation pattern, after the species loop has ended     *)
ParseMutationStatement ==
    /\ phase = "parse"
    /\ parserIndex > Len(parserSource.species)
    /\ parserIndex <= Len(parserSource.species) + Len(parserSource.statements)
    /\ parserResult' =
          [parserResult EXCEPT
              !.mutations =
                  Append(@, ParsedMutation(
                                parserSource.statements[parserIndex
                                                        - Len(parserSource.species)],
                                parserResult.bees))]
    /\ parserIndex' = parserIndex + 1
    /\ UNCHANGED <<fetchVars, toolVars, appVars, phase, inputVars, beeData, relaxVars, hierarchyVars, queryVars,
                   intermediateData, merged, identifier, found, mutationGroups,
                   mutationIndex, skippedMutationsCount, builderWarnings,
                   sortedGroups, parserKind, parserSource, parserReturned>>

(* the rest of the function: the branches are extracted, the temporary     *)
(* fields are cleaned up and the result is returned                        *)
FinishParse ==
    /\ phase = "parse"
    /\ parserIndex > Len(parserSource.species) + Len(parserSource.statements)
    /\ LET cleaned == [uid \in DOMAIN parserResult.bees |->
                          CleanUp(parserResult.bees[uid])]
           result == [bees |-> cleaned,
                      mutations |-> parserResult.mutations,
                      branches |-> ExtractBranches(parserResult.bees)]
       IN /\ parserResult' = result
          /\ parserReturned' = result
    /\ phase' = "parsed"
    /\ UNCHANGED <<fetchVars, toolVars, appVars, inputVars, beeData, relaxVars, hierarchyVars, queryVars,
                   intermediateData, merged, identifier, found, mutationGroups,
                   mutationIndex, skippedMutationsCount, builderWarnings,
                   sortedGroups, parserKind, parserSource, parserIndex>>

----------------------------------------------------------------------------
(* Specification of the two species parsers on small sources               *)

Str_AB == <<"A", "B">>

Str_C_D == <<"C", "_", "D">>

DeclarationUniverse ==
    { [enumName |-> Str_AB, name |-> <<"a", "b">>, branch |-> <<":", "v">>],
      [enumName |-> Str_C_D, name |-> <<"c", "d">>, branch |-> <<"V">>] }

(* tokens: the two enum names, a Forestry constant, and a lower-case token *)
TokenUniverse == {Str_AB, Str_C_D, <<"C", "O">>, <<"x">>}

StatementUniverse ==
    { [parent1 |-> a, parent2 |-> Str_AB, offspring |-> c, chance |-> 10] :
        a \in TokenUniverse, c \in {Str_C_D, <<"C", "O">>} }

InitParse ==
    /\ phase = "parse"
    /\ ClientIdle
    /\ ToolsIdle
    /\ intermediateData = <<>>
    /\ merged = EmptyMerged
    /\ identifier = <<>>
    /\ found = Null
    /\ mutationGroups = <<>>
    /\ mutationIndex = 0
    /\ skippedMutationsCount = 0
    /\ builderWarnings = <<>>
    /\ sortedGroups = <<>>
    /\ parserKind \in {"MagicBees", "CareerBees"}
    /\ \E ds \in SeqsUpTo(DeclarationUniverse, MaxKeys),
          ss \in SeqsUpTo(StatementUniverse, MaxMutations) :
          parserSource = [species |-> ds, statements |-> ss]
    /\ parserResult = [bees |-> <<>>, mutations |-> <<>>, branches |-> <<>>]
    /\ parserIndex = 1
    /\ parserReturned = Null

NextParse == ParseSpeciesEntry \/ ParseMutationStatement \/ FinishParse

SpecParse == InitParse /\ [][NextParse]_vars

----------------------------------------------------------------------------
(* Claim about the species parsers                                         *)

Parsed == phase = "parsed"

EnumNameRemoved(bee) == "_enumName" \notin DOMAIN bee

AllStatementsParsed ==
    Len(parserResult.mutations) = Len(parserSource.statements)

(* a reference that names a declared species was resolved to its uid       *)
ResolvedByEnumName(token, uid) ==
    \A k \in DOMAIN parserSource.species :
        parserSource.species[k].enumName = token =>
            uid = SpeciesUid(parserKind, parserSource.species[k])

(* C19: in the MagicBees and the CareerBees parser the temporary _enumName *)
(* field is removed from the species records only after the parsing and    *)
(* resolution of all mutations has finished, so every reference to a       *)
(* declared species is resolved to its uid, and no species record of the   *)
(* returned intermediate data carries _enumName.                           *)
C19_EnumNameRemovedLast ==
    /\ (\E uid \in DOMAIN parserResult.bees : EnumNameRemoved(parserResult.bees[uid]))
          => Parsed /\ AllStatementsParsed
    /\ \A i \in DOMAIN parserResult.mutations :
          /\ ResolvedByEnumName(parserSource.statements[i].parent1,
                                parserResult.mutations[i].parent1)
          /\ ResolvedByEnumName(parserSource.statements[i].parent2,
                                parserResult.mutations[i].parent2)
          /\ ResolvedByEnumName(parserSource.statements[i].offspring,
                                parserResult.mutations[i].offspring)
    /\ Parsed =>
          /\ parserReturned # Null
          /\ AllStatementsParsed
          /\ DOMAIN parserReturned.bees =
                {SpeciesUid(parserKind, parserSource.species[k]) :
                    k \in DOMAIN parserSource.species}
          /\ \A uid \in DOMAIN parserReturned.bees :
                EnumNameRemoved(parserReturned.bees[uid])

(* two species were declared, a statement naming both was resolved, and    *)
(* the data was returned                                                   *)
C19_Witness ==
    /\ Parsed
    /\ Cardinality(DOMAIN parserReturned.bees) = 2
    /\ Len(parserReturned.mutations) = 2
    /\ parserSource.statements[1].parent1 = Str_C_D
    /\ parserReturned.mutations[1].parent1 \in DOMAIN parserReturned.bees
    /\ parserReturned.mutations[1].parent2 \in DOMAIN parserReturned.bees

----------------------------------------------------------------------------
(* Claim about the two sides of mutations.jsonc                            *)

Loaded == phase = "loaded"

HasCombination(id, combo) ==
    /\ id \in DOMAIN beeData.info
    /\ Includes(beeData.info[id].parentCombinations, combo)

HasChild(id, childId) ==
    /\ id \in DOMAIN beeData.info
    /\ Includes(beeData.info[id].children, childId)

(* C20: the output builder and the loader agree on the format of           *)
(* mutations.jsonc: for every group g the builder emits and every child    *)
(* entry e of g, the loader gives e.species the parent combination         *)
(* [g.parents[0], g.parents[1]] and adds e.species to the children of both *)
(* parents; no dataset entry is created under a key that is not a species  *)
(* id.                                                                     *)
C20_FormatAgreement ==
    Loaded =>
        /\ \A j \in DOMAIN sortedGroups : \A k \in DOMAIN sortedGroups[j].children :
              /\ HasCombination(sortedGroups[j].children[k].species,
                                sortedGroups[j].parents)
              /\ HasChild(sortedGroups[j].parents[1], sortedGroups[j].children[k].species)
              /\ HasChild(sortedGroups[j].parents[2], sortedGroups[j].children[k].species)
        /\ DOMAIN beeData.info \subseteq SpeciesNames

----------------------------------------------------------------------------
(* Claims about one relaxation pass of buildHierarchy                      *)

(* the last pass of the while loop assigned nothing: every key was visited *)
(* under the generation map the state holds                                *)
QuietPass == phase \in {"relax", "done"} /\ iterations >= 1 /\ ~changed

ReadyCombos(b) ==
    {c \in DOMAIN Combos(b) : CombinationValid(Combos(b)[c], generationMap)}

(* C22: an unassigned node with at least one ready parent combination is   *)
(* assigned in the pass that visits it, whether or not its other           *)
(* combinations are ready; so after a pass that assigned nothing no        *)
(* unassigned node with a parentCombinations field has a ready combination *)
C22_ReadyNodeAssigned ==
    QuietPass =>
        \A b \in KeySet(beeData) :
            (b \notin visitedBees /\ beeData.info[b].hasPC) => ReadyCombos(b) = {}

----------------------------------------------------------------------------
(* Claims about re-expansion in the traversals                             *)

(* C23: within one top-level call of getAllAncestors or getAllDescendants  *)
(* the parents (children) list of a node is iterated at most once, also    *)
(* when the node is reachable along several paths, as A from D in the      *)
(* diamond.                                                                *)
C23_ExpandedAtMostOnce ==
    \A id \in DOMAIN expansions : expansions[id] <= 1

----------------------------------------------------------------------------
(* Claims about the retries of findBee                                     *)

(* the keys of the retry: the three patterns over the name with spaces for *)
(* the underscores and each word capitalised, and over the name with the   *)
(* underscores removed                                                     *)
RetryKeys(id) ==
    KeyForms(ConventionPrefix(ModOf(id)), nameWithSpace(NameOf(id)))
    \cup KeyForms(ConventionPrefix(ModOf(id)), StripUnderscores(NameOf(id)))

NeedsRetry(id) ==
    /\ IsModName(id)
    /\ StrIncludes(NameOf(id), "_")
    /\ ~IsKey(id)
    /\ \A i \in 1..3 : ~IsKey(CandidateKeys(id)[i])

(* C24: a reference Mod:Name of any mod whose Name has an underscore and   *)
(* that none of the first three patterns resolved is retried with all      *)
(* three patterns over the spaced, capitalised name and over the name      *)
(* without underscores: when one of those keys exists, findBee returns the *)
(* record of an existing one of them.                                      *)
C24_RetriesAllPatterns ==
    (Resolved /\ NeedsRetry(identifier)) =>
        ((\E k \in RetryKeys(identifier) : IsKey(k)) =>
            \E k \in RetryKeys(identifier) : IsKey(k) /\ found = merged.bees[k])

----------------------------------------------------------------------------
(* Claims about the diagnostics of skipped records                         *)

SkippedRecords == Processed \ ResolvedRecords

(* the k-th skipped record, in the order of the forEach                    *)
SkippedIndex(k) ==
    CHOOSE i \in SkippedRecords : Cardinality({j \in SkippedRecords : j <= i}) = k

UnresolvedRefs(m) ==
    {r \in {m.parent1, m.parent2, m.offspring} : ~Resolves(r)}

(* the text of the warning holds the reference string                      *)
Mentions(w, ref) ==
    \/ w.skipping = ref
    \/ /\ "missing" \in DOMAIN w
       /\ \E e \in DOMAIN w.missing : w.missing[e][2] = ref

HasLocation(w, source) ==
    /\ "location" \in DOMAIN w
    /\ w.location.fullPath = PathResolve(source.file)
    /\ w.location.line = source.line

(* C25: for every skipped raw mutation record the diagnostic holds each    *)
(* reference string that failed to resolve (parent1, parent2 or            *)
(* offspring), and the source file and line when the record has a source   *)
(* location; also for a record without source location whose unresolved    *)
(* reference is a parent.                                                  *)
C25_DiagnosticNamesReferences ==
    InPairs =>
        /\ Len(builderWarnings) = Cardinality(SkippedRecords)
        /\ \A k \in DOMAIN builderWarnings :
              LET m == RawMutations[SkippedIndex(k)]
                  w == builderWarnings[k]
              IN /\ \A r \in UnresolvedRefs(m) : Mentions(w, r)
                 /\ "source" \in DOMAIN m => HasLocation(w, m.source)

----------------------------------------------------------------------------
(* Claims about the requirements object of a child entry                   *)

NoEmptyRequirements(groups) ==
    \A j \in DOMAIN groups : \A k \in DOMAIN groups[j].children :
        "requirements" \in DOMAIN groups[j].children[k]
            => DOMAIN groups[j].children[k].requirements # {}

(* C26: a child entry carries a requirements object only when at least one *)
(* requirement field was copied into it: no child entry has an empty       *)
(* requirements object, also when the raw conditions hold only isSecret or *)
(* only keys the builder does not copy.                                    *)
C26_NoEmptyRequirements ==
    InPairs => NoEmptyRequirements(mutationGroups) /\ NoEmptyRequirements(sortedGroups)

----------------------------------------------------------------------------
(* Claims about buildBeesJsonc                                             *)

BeesBuilt == phase = "beesBuilt"

OutputKeys == {beesJsonc[i][1] : i \in DOMAIN beesJsonc}

(* C27: buildBeesJsonc emits one output entry per merged species record:   *)
(* two records with different ids never end up under the same Mod:Name     *)
(* key, so bees.jsonc has as many keys as there are merged species.        *)
C27_OneEntryPerSpecies ==
    BeesBuilt =>
        /\ Cardinality(OutputKeys) = Cardinality(DOMAIN merged.bees)
        /\ \A u, v \in DOMAIN merged.bees :
              u # v => PublicName(merged.bees[u]) # PublicName(merged.bees[v])

----------------------------------------------------------------------------
(* scripts/build.js: MOD_CONFIGS and parseAllMods                          *)
(*                                                                         *)
(* A parser module is the set of names its module.exports holds; a         *)
(* function value is a record naming the module and the function.          *)

ParserModules ==
    {"gendustry_parser", "forestry_parser", "extrabees_parser",
     "careerbees_parser", "magicbees_parser"}

(* module.exports of each parser file (gendustry_parser.js:416,            *)
(* careerbees_parser.js:245, magicbees_parser.js:352); the Forestry and    *)
(* ExtraBees parsers export the names build.js imports from them           *)
ModuleExports(file) ==
    CASE file = "gendustry_parser" -> {"parseGendustry"}
      [] file = "forestry_parser" -> {"parseForestry"}
      [] file = "extrabees_parser" -> {"parseExtraBees"}
      [] file = "careerbees_parser" -> {"parseCareerBees"}
      [] file = "magicbees_parser" -> {"parseMagicBees"}

(* const { name } = require("./parsers/file"): a property the exports      *)
(* object does not hold is undefined                                       *)
RequireNamed(file, name) ==
    IF name \in ModuleExports(file)
    THEN [t |-> "function", module |-> file, name |-> name]
    ELSE Undefined

parseGenDustry == RequireNamed("gendustry_parser", "parseGenDustry")

parseForestry == RequireNamed("forestry_parser", "parseForestry")

parseExtraBees == RequireNamed("extrabees_parser", "parseExtraBees")

parseCareerBees == RequireNamed("careerbees_parser", "parseCareerBees")

parseMagicBees == RequireNamed("magicbees_parser", "parseMagicBees")

(* Object.entries(MOD_CONFIGS), in insertion order                         *)
MOD_CONFIGS ==
    << <<"forestry", [name |-> Str_Forestry, parser |-> parseForestry]>>,
       <<"extrabees", [name |-> Str_ExtraBees, parser |-> parseExtraBees]>>,
       <<"careerbees", [name |-> Str_CareerBees, parser |-> parseCareerBees]>>,
       <<"magicbees", [name |-> Str_MagicBees, parser |-> parseMagicBees]>>,
       <<"meatballcraft", [name |-> Str_MeatballCraft, parser |-> parseGenDustry]>> >>

ModKeys == {MOD_CONFIGS[i][1] : i \in DOMAIN MOD_CONFIGS}

(* Object.entries(MOD_CONFIGS).filter(([key]) => modsToInclude.includes(key)) *)
RECURSIVE FilterConfigs(_, _)
FilterConfigs(entries, include) ==
    IF entries = <<>> THEN <<>>
    ELSE IF Head(entries)[1] \in Range(include)
         THEN <<Head(entries)>> \o FilterConfigs(Tail(entries), include)
         ELSE FilterConfigs(Tail(entries), include)

(* null is falsy, an array (an empty one too) is truthy                    *)
modsConfig ==
    IF modsToInclude = Null THEN MOD_CONFIGS
    ELSE FilterConfigs(MOD_CONFIGS, modsToInclude.v)

(* what a parser returns for its source file: records of its mod           *)
ParseResult(fn, config) ==
    [bees |-> [k \in {toLowerCase(config.name) \o <<".">> \o Str_ash} |->
                  [mod |-> config.name, name |-> Str_ash]],
     mutations |-> <<>>,
     parsedBy |-> fn]

(* config.parser(config.sourceFile): calling undefined throws a TypeError, *)
(* a parser may throw on its file                                          *)
CallThrows(key, config) ==
    \/ config.parser = Undefined
    \/ key \in throwingParsers

ErrorMessage(config) ==
    IF config.parser = Undefined THEN "config.parser is not a function"
    ELSE "parser error"

IncludeUniverse ==
    {Null,
     Arr(<<>>),
     Arr(<<"meatballcraft">>),
     Arr(<<"magicbees", "forestry">>),
     Arr(<<"careerbees", "nosuchmod">>)}

InitBuildScript ==
    /\ phase = "parseAllMods"
    /\ ClientIdle
    /\ ScriptsIdle
    /\ beesJsonc = <<>>
    /\ sourceFiles \in SUBSET ModKeys
    /\ throwingParsers \in SUBSET ModKeys
    /\ modsToInclude \in IncludeUniverse
    /\ modIndex = 1
    /\ buildLog = <<>>

InLoop == phase = "parseAllMods" /\ modIndex <= Len(modsConfig)

UnchangedByBuild ==
    UNCHANGED <<fetchVars, appVars, inputVars, beeData, relaxVars, hierarchyVars,
                queryVars, merged, identifier, found, mutationGroups, mutationIndex,
                skippedMutationsCount, builderWarnings, sortedGroups, parserVars,
                beesJsonc, sourceFiles, throwingParsers, modsToInclude>>

(* if (!fs.existsSync(config.sourceFile)) { warn; continue }               *)
SkipMissingSource ==
    /\ InLoop
    /\ modsConfig[modIndex][1] \notin sourceFiles
    /\ buildLog' = Append(buildLog, [mod |-> modsConfig[modIndex][1],
                                      event |-> "skipped",
                                      message |-> "Source file not found"])
    /\ modIndex' = modIndex + 1
    /\ UNCHANGED <<phase, intermediateData>>
    /\ UnchangedByBuild

(* try { data = config.parser(file); intermediateData.push(data) }         *)
ParseMod ==
    /\ InLoop
    /\ modsConfig[modIndex][1] \in sourceFiles
    /\ ~CallThrows(modsConfig[modIndex][1], modsConfig[modIndex][2])
    /\ intermediateData' =
          Append(intermediateData,
                 ParseResult(modsConfig[modIndex][2].parser, modsConfig[modIndex][2]))
    /\ buildLog' = Append(buildLog, [mod |-> modsConfig[modIndex][1],
                                      event |-> "parsed",
                                      message |-> "Successfully parsed"])
    /\ modIndex' = modIndex + 1
    /\ UNCHANGED phase
    /\ UnchangedByBuild

(* catch (error) { console.error(...) }: continue with other mods          *)
CatchParseError ==
    /\ InLoop
    /\ modsConfig[modIndex][1] \in sourceFiles
    /\ CallThrows(modsConfig[modIndex][1], modsConfig[modIndex][2])
    /\ buildLog' = Append(buildLog, [mod |-> modsConfig[modIndex][1],
                                      event |-> "error",
                                      message |-> ErrorMessage(modsConfig[modIndex][2])])
    /\ modIndex' = modIndex + 1
    /\ UNCHANGED <<phase, intermediateData>>
    /\ UnchangedByBuild

(* return intermediateData                                                 *)
ReturnIntermediateData ==
    /\ phase = "parseAllMods"
    /\ modIndex > Len(modsConfig)
    /\ phase' = "parsedAllMods"
    /\ UNCHANGED <<intermediateData, modIndex, buildLog>>
    /\ UnchangedByBuild

NextBuildScript ==
    \/ SkipMissingSource
    \/ ParseMod
    \/ CatchParseError
    \/ ReturnIntermediateData

SpecBuildScript == InitBuildScript /\ [][NextBuildScript]_vars

----------------------------------------------------------------------------
(* Claim about parseAllMods                                                *)

ParsedAllMods == phase = "parsedAllMods"

(* every configured source file exists, no parser throws on its file, and  *)
(* all mods are requested                                                  *)
AllSourcesParse ==
    /\ modsToInclude = Null
    /\ sourceFiles = ModKeys
    /\ throwingParsers = {}

ConfiguredNames == [i \in DOMAIN MOD_CONFIGS |-> MOD_CONFIGS[i][2].name]

ReturnedMods ==
    [i \in DOMAIN intermediateData |->
        intermediateData[i].bees[CHOOSE k \in DOMAIN intermediateData[i].bees : TRUE].mod]

(* C30: when all five source files exist and no parser fails on its file,  *)
(* parseAllMods returns five records in configuration order (Forestry,     *)
(* ExtraBees, CareerBees, MagicBees, MeatballCraft), and the MeatballCraft *)
(* record is the result of the function gendustry_parser.js exports.       *)
C30_AllFiveModsParsed ==
    (ParsedAllMods /\ AllSourcesParse) =>
        /\ ReturnedMods = ConfiguredNames
        /\ \E i \in DOMAIN intermediateData :
              /\ ReturnedMods[i] = Str_MeatballCraft
              /\ intermediateData[i].parsedBy.module = "gendustry_parser"
              /\ intermediateData[i].parsedBy.name \in ModuleExports("gendustry_parser")

----------------------------------------------------------------------------
(* BeeBreedingApp: mod filter, filtered view and layout                    *)
(*                                                                         *)
(* The dataset keys 1, 2, ... stand for the ids of BeeIdTable; a node      *)
(* position is kept as twice its x and y, so that the halves of widths     *)
(* and spacings stay integers.                                             *)

ySpacing == 40

straightLength == 10

gap == 10

BeeIdTable ==
    << Str_Forestry \o <<":">> \o Str_Rocky,
       Str_ExtraBees \o <<":">> \o Str_Zinc,
       Str_ExtraBees \o <<":">> \o Str_ash,
       Str_MagicBees \o <<":">> \o Str_AB >>

BeeId(b) == BeeIdTable[b]

(* allMods of getFilteredBeeData and applyModFilter                        *)
allMods ==
    <<Str_forestry, Str_extrabees, Str_magicbees, Str_careerbees, Str_meatballcraft>>

(* s.replace(/\s+/g, "")                                                   *)
StripSpaces(s) == SelectSeq(s, LAMBDA c : c # " ")

getModFromId(nodeId) ==
    LET parts == split(nodeId, ":")
    IN IF Len(parts) > 1 THEN StripSpaces(toLowerCase(parts[1]))
       ELSE <<"u", "n", "k", "n", "o", "w", "n">>

(* the name the loader stores for an id, which buildHierarchy copies       *)
NodeName(id) ==
    LET parts == split(BeeId(id), ":")
    IN IF Len(parts) = 2 THEN parts[2] ELSE BeeId(id)

(* node.width = Math.max(100, text.toUpperCase().length * 9 + 30)          *)
NodeWidth(node) == Max2(100, Len(toUpperCase(NodeName(node.id))) * 9 + 30)

(* buildHierarchy as a function of the dataset                             *)
RECURSIVE RunPasses(_, _, _)
RunPasses(data, st, it) ==
    IF LoopContinues(st.changed, it)
    THEN RunPasses(data, PassFrom(data, 1, [st EXCEPT !.changed = FALSE]), it + 1)
    ELSE st

buildHierarchy(data) ==
    LET st == RunPasses(data, [gm |-> [b \in BaseBees(data) |-> 0],
                               visited |-> BaseBees(data),
                               changed |-> TRUE], 0)
        ns == MakeNodes(data, st.gm)
    IN [nodes |-> ns,
        links |-> MakeLinks(ns, DOMAIN MakeNodeMap(ns)),
        nodeMap |-> MakeNodeMap(ns)]

(* addAncestors: the Set beesWithAncestors in insertion order              *)
RECURSIVE AddAncestors(_, _, _)
RECURSIVE AddParents(_, _, _)
AddAncestors(acc, beeId, fullNodeMap) ==
    IF beeId \in DOMAIN fullNodeMap
    THEN AddParents(acc, fullNodeMap[beeId].parents, fullNodeMap)
    ELSE acc

AddParents(acc, parents, fullNodeMap) ==
    IF parents = <<>> THEN acc
    ELSE IF Includes(acc, Head(parents))
         THEN AddParents(acc, Tail(parents), fullNodeMap)
         ELSE AddParents(AddAncestors(Append(acc, Head(parents)), Head(parents),
                                      fullNodeMap),
                         Tail(parents), fullNodeMap)

RECURSIVE AddAllAncestors(_, _, _)
AddAllAncestors(acc, ids, fullNodeMap) ==
    IF ids = <<>> THEN acc
    ELSE AddAllAncestors(AddAncestors(acc, Head(ids), fullNodeMap), Tail(ids),
                         fullNodeMap)

AllSelected(selected) == \A i \in DOMAIN allMods : allMods[i] \in selected

(* the dataset applyModFilter (and getFilteredBeeData) builds              *)
FilteredBeeData(data, selected, fullNodeMap) ==
    IF selected = {} \/ AllSelected(selected) THEN data
    ELSE LET selectedBeeIds ==
                 SelectSeq(data.keys, LAMBDA b : getModFromId(BeeId(b)) \in selected)
             beesWithAncestors ==
                 AddAllAncestors(selectedBeeIds, selectedBeeIds, fullNodeMap)
         IN [keys |-> beesWithAncestors,
             info |-> [b \in Range(beesWithAncestors) |-> data.info[b]]]

(* this.isModFiltered after the filter                                     *)
ModFiltered(selected) == selected # {} /\ ~AllSelected(selected)

(* getAllAncestors (kind "parents") and getAllDescendants (kind            *)
(* "children") as the recursion computes them                              *)
RECURSIVE Traverse(_, _, _, _)
Traverse(nm, kind, nodeId, visited) ==
    IF nodeId \in visited THEN {}
    ELSE IF nodeId \notin DOMAIN nm THEN {}
    ELSE UNION { {nm[nodeId][kind][k]}
                   \cup Traverse(nm, kind, nm[nodeId][kind][k], visited \cup {nodeId}) :
                 k \in DOMAIN nm[nodeId][kind] }

getAllAncestors(nm, nodeId) == Traverse(nm, "parents", nodeId, {})

getAllDescendants(nm, nodeId) == Traverse(nm, "children", nodeId, {})

----------------------------------------------------------------------------
(* layout.js: positionSplitLayout                                          *)

IndexOf(s, x) == CHOOSE k \in DOMAIN s : s[k] = x

(* Math.max(...genNodes.map((n) => n.width || 100)), or 100                *)
MaxWidth(ns) ==
    IF ns = <<>> THEN 100 ELSE SetMax({NodeWidth(ns[k]) : k \in DOMAIN ns})

(* twice maxCurrentWidth / 2 + straightSegments + gap + maxNextWidth / 2   *)
Spacing2(currentGenNodes, nextGenNodes) ==
    MaxWidth(currentGenNodes) + 2 * (straightLength * 2) + 2 * gap
        + MaxWidth(nextGenNodes)

calculateDynamicXSpacing(ns, generation) ==
    Spacing2(SelectSeq(ns, LAMBDA n : n.generation = generation),
             SelectSeq(ns, LAMBDA n : n.generation = generation + 1))

(* generationXPositions.get(gen) for gen >= 0, doubled                     *)
RECURSIVE GenerationX(_, _)
GenerationX(ns, gen) ==
    IF gen = 0 THEN 0
    ELSE GenerationX(ns, gen - 1) + calculateDynamicXSpacing(ns, gen - 1)

(* the 0-based slot of the i-th node (0-based) of a list of n nodes sorted *)
(* by children: the first in the middle, the others alternating around it  *)
TargetIndex(i, n) ==
    LET mid == n \div 2
    IN IF n % 2 = 0
       THEN IF i = 0 THEN mid - 1
            ELSE IF i = 1 THEN mid
            ELSE IF i % 2 = 0 THEN mid - 1 - (i \div 2)
            ELSE mid + ((i - 1) \div 2)
       ELSE IF i = 0 THEN mid
            ELSE IF i % 2 = 1 THEN mid - ((i + 1) \div 2)
            ELSE mid + (i \div 2)

CompareByChildren(a, b) == Len(b.children) - Len(a.children)

(* reordered[targetIndex] = sortedByChildren[i], as a 1-based sequence     *)
Reordered(genNodes) ==
    LET sortedByChildren == SortWith(genNodes, CompareByChildren)
        n == Len(sortedByChildren)
    IN [k \in 1..n |->
          sortedByChildren[CHOOSE i \in 1..n : TargetIndex(i - 1, n) = k - 1]]

(* twice (index - (count - 1) / 2) * config.ySpacing + base, 0-based index *)
RowY2(index, count, base) == (2 * index - (count - 1)) * ySpacing + 2 * base

CompareByName(a, b) == localeCompare(NodeName(a.id), NodeName(b.id))

(* the balanced distribution of n sorted childless nodes over columns of   *)
(* at most perColumn: [col, row, size] of the node at 0-based index idx    *)
ColumnSlot(idx, n, perColumn) ==
    LET numColumns == (n + perColumn - 1) \div perColumn
        base == n \div numColumns
        extra == n % numColumns
        Size(col) == base + (IF col < extra THEN 1 ELSE 0)
        Start(col) == col * base + (IF col < extra THEN col ELSE extra)
        col == CHOOSE c \in 0..(numColumns - 1) :
                   Start(c) <= idx /\ idx < Start(c) + Size(c)
    IN [col |-> col, row |-> idx - Start(col), size |-> Size(col)]

(* Math.max(...generationCounts.values(), 15)                              *)
NodesPerColumn(ns) ==
    SetMax({15} \cup
           {Len(SelectSeq(ns, LAMBDA n : Len(n.children) > 0 /\ n.generation = g)) :
              g \in {ns[k].generation : k \in DOMAIN ns}})

IsGen0Childless(node) == node.generation = 0 /\ Len(node.children) = 0

(* the position positionSplitLayout gives the node at index k of ns        *)
SplitPosition(ns, k) ==
    LET node == ns[k]
        gen0Childless == SortWith(SelectSeq(ns, IsGen0Childless), CompareByName)
        genNodes == SelectSeq(ns, LAMBDA n : n.generation = node.generation)
        nodesToSort == IF node.generation = 0
                       THEN SelectSeq(genNodes, LAMBDA n : Len(n.children) > 0)
                       ELSE genNodes
        reordered == Reordered(nodesToSort)
    IN IF IsGen0Childless(node)
       THEN LET slot == ColumnSlot(IndexOf(gen0Childless, node) - 1,
                                   Len(gen0Childless), NodesPerColumn(ns))
            IN [x |-> (0 - (slot.col + 1)) * calculateDynamicXSpacing(ns, 0),
                y |-> RowY2(slot.row, slot.size, 400)]
       ELSE [x |-> GenerationX(ns, node.generation),
             y |-> RowY2(IndexOf(reordered, node) - 1, Len(reordered), 400)]

(* positionNodes(nodes, SPLIT): the x and y of every node, by id           *)
positionNodes(ns) ==
    [id \in {ns[k].id : k \in DOMAIN ns} |->
        SplitPosition(ns, CHOOSE k \in DOMAIN ns : ns[k].id = id)]

----------------------------------------------------------------------------
(* BeeBreedingApp: arrangeFilteredNodes                                    *)

FilteredIds(filteredNodes) == {filteredNodes[k].id : k \in DOMAIN filteredNodes}

FilteredParents(node, filteredIds) ==
    SelectSeq(node.parents, LAMBDA p : p \in filteredIds)

(* a node without parents, or without a parent in the filtered set         *)
IsFilteredBase(node, filteredIds) == FilteredParents(node, filteredIds) = <<>>

(* one node of the forEach inside the while loop; st = [gm, changed]       *)
FilteredVisit(node, filteredIds, st) ==
    LET filteredParents == FilteredParents(node, filteredIds)
        Assign(g) == [gm |-> [x \in DOMAIN st.gm \cup {node.id} |->
                                 IF x = node.id THEN g ELSE st.gm[x]],
                      changed |-> TRUE]
    IN IF node.id \in DOMAIN st.gm \/ node.parents = <<>> THEN st
       ELSE IF filteredParents = <<>> THEN Assign(0)
       ELSE IF \A k \in DOMAIN filteredParents : filteredParents[k] \in DOMAIN st.gm
            THEN Assign(SetMax({st.gm[filteredParents[k]] :
                                   k \in DOMAIN filteredParents}) + 1)
            ELSE st

RECURSIVE FilteredPass(_, _, _, _)
FilteredPass(filteredNodes, filteredIds, i, st) ==
    IF i > Len(filteredNodes) THEN st
    ELSE FilteredPass(filteredNodes, filteredIds, i + 1,
                      FilteredVisit(filteredNodes[i], filteredIds, st))

(* while (changed && iterations < 20)                                      *)
RECURSIVE FilteredLoop(_, _, _, _)
FilteredLoop(filteredNodes, filteredIds, st, it) ==
    IF st.changed /\ it < 20
    THEN FilteredLoop(filteredNodes, filteredIds,
                      FilteredPass(filteredNodes, filteredIds, 1,
                                   [st EXCEPT !.changed = FALSE]),
                      it + 1)
    ELSE st

FilteredGenerations(filteredNodes) ==
    LET filteredIds == FilteredIds(filteredNodes)
        baseBees == {id \in filteredIds :
                        \E k \in DOMAIN filteredNodes :
                            /\ filteredNodes[k].id = id
                            /\ IsFilteredBase(filteredNodes[k], filteredIds)}
    IN FilteredLoop(filteredNodes, filteredIds,
                    [gm |-> [id \in baseBees |-> 0], changed |-> TRUE], 0).gm

(* filteredGenerations.get(d.id) || 0                                      *)
FilteredGenerationOf(gm, id) == IF id \in DOMAIN gm THEN gm[id] ELSE 0

(* generationXPositions.get(genIndex), doubled; groups holds the nodes of  *)
(* each generation in sortedGens order                                     *)
RECURSIVE FilteredX(_, _)
FilteredX(groups, genIndex) ==
    IF genIndex = 0 THEN 0
    ELSE FilteredX(groups, genIndex - 1)
            + Spacing2(groups[genIndex], groups[genIndex + 1])

(* genIndex % 2 === 1 ? -30 * Math.ceil(genIndex / 2)                      *)
(*                    : 30 * Math.floor(genIndex / 2)                      *)
GenerationOffset(genIndex) ==
    IF genIndex % 2 = 1 THEN (0 - 30) * ((genIndex + 1) \div 2)
    ELSE 30 * (genIndex \div 2)

(* the position of the node at slot i (1-based) of the reordered nodes of  *)
(* the generation at genIndex (0-based)                                    *)
FilteredPosition(groups, genIndex, reordered, i, selectedId) ==
    LET selectedHere == \E k \in DOMAIN reordered : reordered[k].id = selectedId
        selectedNodeIndex == CHOOSE k \in DOMAIN reordered : reordered[k].id = selectedId
    IN [x |-> FilteredX(groups, genIndex),
        y |-> IF reordered[i].id = selectedId THEN 2 * 400
              ELSE IF selectedHere
                   THEN 2 * (400 + (i - selectedNodeIndex) * ySpacing)
                   ELSE RowY2(i - 1, Len(reordered), 400 + GenerationOffset(genIndex))]

(* the x and y arrangeFilteredNodes writes, by id of the filtered nodes    *)
arrangeFilteredNodes(filteredNodes, selectedId) ==
    LET gm == FilteredGenerations(filteredNodes)
        GenOf(n) == FilteredGenerationOf(gm, n.id)
        sortedGens == AscendingSeq({GenOf(filteredNodes[k]) : k \in DOMAIN filteredNodes})
        groups == [g \in DOMAIN sortedGens |->
                      SelectSeq(filteredNodes, LAMBDA n : GenOf(n) = sortedGens[g])]
        GroupOf(id) == CHOOSE g \in DOMAIN groups :
                           \E k \in DOMAIN groups[g] : groups[g][k].id = id
        SlotOf(id) == CHOOSE i \in DOMAIN Reordered(groups[GroupOf(id)]) :
                           Reordered(groups[GroupOf(id)])[i].id = id
    IN [id \in FilteredIds(filteredNodes) |->
          FilteredPosition(groups, GroupOf(id) - 1, Reordered(groups[GroupOf(id)]),
                           SlotOf(id), selectedId)]

----------------------------------------------------------------------------
(* BeeBreedingApp: handlers                                                *)

Running == phase = "running"

(* the values of the .mod-filter-checkbox elements                         *)
CheckboxValues ==
    {Str_Forestry, Str_ExtraBees, Str_MagicBees, Str_CareerBees, Str_MeatballCraft}

(* the breeding pairs of the loaded file, as <<child, parents>> entries    *)
AppEntryUniverse ==
    { <<3, <<1, 2>>>>, <<3, <<1, 1>>>>, <<2, <<1, 1>>>>, <<3, <<2, 2>>>> }

MaxAppEntries == 2

AppDatasets ==
    { ConvertBreedingPairsToMutations(GroupEntries(e), <<1, 2, 3>>) :
        e \in SeqsUpTo(AppEntryUniverse, MaxAppEntries) }

(* the node objects after the assignments of node.x and node.y in written  *)
WritePositions(old, written) ==
    [id \in DOMAIN old \cup DOMAIN written |->
        IF id \in DOMAIN written THEN written[id] ELSE old[id]]

InitApp ==
    /\ phase = "constructed"
    /\ breedingPairs = <<>>
    /\ beesKeys = <<>>
    /\ beeData = EmptyData
    /\ NotStarted
    /\ nodes = <<>>
    /\ links = <<>>
    /\ nodeMap = <<>>
    /\ NoQuery
    /\ LoaderIdle
    /\ ToolsIdle
    /\ AppConstructed
    /\ ScriptsIdle

UnchangedByApp ==
    UNCHANGED <<fetchVars, toolVars, scriptVars, inputVars, relaxVars, queryVars>>

(* initialize(): readCheckboxStates, loadBeeData, the two buildHierarchy   *)
(* calls, the widths and positionNodes                                     *)
Initialize ==
    /\ phase = "constructed"
    /\ \E data \in AppDatasets, checked \in SUBSET CheckboxValues :
          LET selected == {toLowerCase(v) : v \in checked}
              full == buildHierarchy(data)
              hierarchyData == buildHierarchy(FilteredBeeData(data, selected, full.nodeMap))
          IN /\ selectedMods' = selected
             /\ beeData' = data
             /\ fullHierarchyData' = full
             /\ isModFiltered' = ModFiltered(selected)
             /\ nodes' = hierarchyData.nodes
             /\ links' = hierarchyData.links
             /\ nodeMap' = hierarchyData.nodeMap
             /\ positions' = positionNodes(hierarchyData.nodes)
    /\ phase' = "running"
    /\ UNCHANGED <<isFilteredView, originalPositions, currentSelectedNode,
                   filterModeToggle, hiddenNodes>>
    /\ UnchangedByApp

(* what showFilteredView(selectedNode) writes                              *)
ShowFilteredView(selectedNode) ==
    LET connectedIds == {selectedNode.id}
                            \cup getAllAncestors(nodeMap, selectedNode.id)
                            \cup getAllDescendants(nodeMap, selectedNode.id)
        filteredNodes == SelectSeq(nodes, LAMBDA n : n.id \in connectedIds)
    IN /\ isFilteredView' = TRUE
       /\ originalPositions' =
             IF DOMAIN originalPositions = {} THEN positions ELSE originalPositions
       /\ positions' = WritePositions(positions,
                                    arrangeFilteredNodes(filteredNodes, selectedNode.id))
       /\ hiddenNodes' = DOMAIN nodeMap \ connectedIds

(* node.x = original.x, node.y = original.y for the nodes with a saved     *)
(* position; originalPositions.clear(); every node is displayed            *)
RestorePositions ==
    /\ isFilteredView' = FALSE
    /\ positions' = [id \in DOMAIN positions |->
                        IF id \in DOMAIN originalPositions
                        THEN originalPositions[id] ELSE positions[id]]
    /\ originalPositions' = <<>>
    /\ hiddenNodes' = {}

(* a click on a displayed node: selectNode(d)                              *)
SelectNode ==
    /\ Running
    /\ \E k \in DOMAIN nodes :
          /\ nodes[k].id \notin hiddenNodes
          /\ currentSelectedNode' = nodes[k]
          /\ IF filterModeToggle
             THEN UNCHANGED <<isFilteredView, originalPositions, positions, hiddenNodes>>
             ELSE ShowFilteredView(nodes[k])
    /\ UNCHANGED <<phase, beeData, hierarchyVars, selectedMods, fullHierarchyData,
                   isModFiltered, filterModeToggle>>
    /\ UnchangedByApp

(* a click on the background: resetHighlight()                             *)
ResetHighlight ==
    /\ Running
    /\ currentSelectedNode' = Null
    /\ IF isFilteredView
       THEN RestorePositions
       ELSE UNCHANGED <<isFilteredView, originalPositions, positions, hiddenNodes>>
    /\ UNCHANGED <<phase, beeData, hierarchyVars, selectedMods, fullHierarchyData,
                   isModFiltered, filterModeToggle>>
    /\ UnchangedByApp

(* the change listener of the filter-mode checkbox                         *)
FilterModeChange ==
    /\ Running
    /\ filterModeToggle' = ~filterModeToggle
    /\ IF currentSelectedNode = Null
       THEN UNCHANGED <<isFilteredView, originalPositions, positions, hiddenNodes>>
       ELSE IF filterModeToggle'
            THEN IF isFilteredView
                 THEN RestorePositions
                 ELSE UNCHANGED <<isFilteredView, originalPositions, positions,
                                  hiddenNodes>>
            ELSE ShowFilteredView(currentSelectedNode)
    /\ UNCHANGED <<phase, beeData, hierarchyVars, selectedMods, fullHierarchyData,
                   isModFiltered, currentSelectedNode>>
    /\ UnchangedByApp

(* the change listener of a mod filter checkbox, then applyModFilter()     *)
ModFilterChange ==
    /\ Running
    /\ \E value \in CheckboxValues :
          LET modName == toLowerCase(value)
              selected == IF modName \in selectedMods
                          THEN selectedMods \ {modName}
                          ELSE selectedMods \cup {modName}
              hierarchyData ==
                  buildHierarchy(FilteredBeeData(beeData, selected,
                                                 fullHierarchyData.nodeMap))
          IN /\ selectedMods' = selected
             /\ isModFiltered' = ModFiltered(selected)
             /\ nodes' = hierarchyData.nodes
             /\ links' = hierarchyData.links
             /\ nodeMap' = hierarchyData.nodeMap
             /\ positions' = positionNodes(hierarchyData.nodes)
    /\ hiddenNodes' = {}
    /\ UNCHANGED <<phase, beeData, fullHierarchyData, isFilteredView,
                   originalPositions, currentSelectedNode, filterModeToggle>>
    /\ UnchangedByApp

NextApp ==
    \/ Initialize
    \/ SelectNode
    \/ ResetHighlight
    \/ FilterModeChange
    \/ ModFilterChange

SpecApp == InitApp /\ [][NextApp]_vars

----------------------------------------------------------------------------
(* Claims about the app                                                    *)

ListedIds(nm) ==
    UNION {Range(nm[id].parents) \cup Range(nm[id].children) : id \in DOMAIN nm}

(* C28: in the hierarchy the mod filter rebuilds (the bees of the selected *)
(* mods and all their ancestors), every id in a node's parents or children *)
(* is a node of that hierarchy, for every set of selected mods, so         *)
(* getAllDescendants returns ids of existing nodes only.                   *)
C28_FilteredHierarchyClosed ==
    Running =>
        /\ ListedIds(nodeMap) \subseteq DOMAIN nodeMap
        /\ \A id \in DOMAIN nodeMap : getAllDescendants(nodeMap, id) \subseteq DOMAIN nodeMap

(* C29: whenever isFilteredView is false, every node sits at the position  *)
(* positionNodes computes for the current hierarchy: neither the filtered  *)
(* arrangement nor positions saved for an earlier hierarchy show in the    *)
(* normal view.                                                            *)
C29_NormalViewAtLayoutPositions ==
    (Running /\ ~isFilteredView) => positions = positionNodes(nodes)

----------------------------------------------------------------------------
(* loadBeeData: the two fetches, the try body and the fallback             *)
(*                                                                         *)
(* loaderKind names the module: "beeProcessor" (data/beeProcessor.js) or   *)
(* "dataLoader" (data/dataLoader.js, the one the app imports).  A fetch is *)
(* pending, rejected, or fulfilled with a response [ok, body]; a body is   *)
(* unparsable or the JSON value it parses to.  The pairs file lists, for   *)
(* each pair, the species of its children in the format the loader reads.  *)

Files == {"bees", "pairs"}

Pending == [state |-> "pending"]

Rejected == [state |-> "rejected"]

Response(ok, body) == [state |-> "fulfilled", ok |-> ok, body |-> body]

Unparsable == [json |-> "none"]

JsonObject(ks) == [json |-> "object", keys |-> ks]

JsonArray(items) == [json |-> "array", items |-> items]

Bodies(file) ==
    IF file = "bees"
    THEN {Unparsable, JsonObject(<<>>), JsonObject(<<1, 2>>)}
    ELSE {Unparsable, JsonObject(<<>>), JsonArray(<<>>),
          JsonArray(<<BreedingPair(<<1, 2>>, <<3>>)>>)}

Responses(file) == {Response(ok, body) : ok \in BOOLEAN, body \in Bodies(file)}

(* the ids of the hard-coded fallback records: no key of the files         *)
FallbackKeys(kind) ==
    IF kind = "beeProcessor" THEN <<NumBees + 1>>
    ELSE <<NumBees + 1, NumBees + 2, NumBees + 3>>

(* the fallback records carry no parentCombinations and no children        *)
FallbackData(kind) ==
    [keys |-> FallbackKeys(kind),
     info |-> [b \in Range(FallbackKeys(kind)) |-> BeeInfo(FALSE, <<>>, <<>>)]]

IsFulfilled(file) == fetches[file].state = "fulfilled"

(* if (!response.ok) throw: in data/beeProcessor.js only                   *)
OkCheckThrows(kind) ==
    kind = "beeProcessor" /\ (~fetches["bees"].ok \/ ~fetches["pairs"].ok)

(* JSON.parse(stripJsonComments(text)) throws a SyntaxError                *)
ParseThrows == \E file \in Files : fetches[file].body = Unparsable

(* breedingPairs.forEach on a value that is no array throws a TypeError    *)
ConversionThrows == fetches["pairs"].body.json # "array"

TryBodyThrows(kind) == OkCheckThrows(kind) \/ ParseThrows \/ ConversionThrows

ErrorOf(kind) ==
    IF \E file \in Files : fetches[file].state = "rejected" THEN "fetch failed"
    ELSE IF OkCheckThrows(kind) THEN "Failed to load"
    ELSE IF ParseThrows THEN "SyntaxError"
    ELSE "TypeError"

InitFetch ==
    /\ phase = "fetching"
    /\ loaderKind \in {"beeProcessor", "dataLoader"}
    /\ fetches = [file \in Files |-> Pending]
    /\ loaderLog = <<>>
    /\ breedingPairs = <<>>
    /\ beesKeys = <<>>
    /\ beeData = EmptyData
    /\ NotStarted
    /\ nodes = <<>>
    /\ links = <<>>
    /\ nodeMap = <<>>
    /\ NoQuery
    /\ ToolsIdle
    /\ AppConstructed
    /\ ScriptsIdle

UnchangedByFetch ==
    UNCHANGED <<toolVars, appVars, scriptVars, inputVars, relaxVars, hierarchyVars,
                queryVars>>

(* a fetch promise fulfils with the server's response                      *)
FetchFulfils ==
    /\ \E file \in Files :
          /\ fetches[file] = Pending
          /\ \E response \in Responses(file) :
                fetches' = [fetches EXCEPT ![file] = response]
    /\ UNCHANGED <<phase, loaderKind, loaderLog, beeData>>
    /\ UnchangedByFetch

(* a fetch promise rejects: the network request failed                     *)
FetchRejects ==
    /\ \E file \in Files :
          /\ fetches[file] = Pending
          /\ fetches' = [fetches EXCEPT ![file] = Rejected]
    /\ UNCHANGED <<phase, loaderKind, loaderLog, beeData>>
    /\ UnchangedByFetch

(* Promise.all has rejected, or the try body has thrown: the catch logs    *)
(* the error and returns the fallback                                      *)
LoadBeeDataCatch ==
    /\ phase = "fetching"
    /\ \/ \E file \in Files : fetches[file].state = "rejected"
       \/ /\ \A file \in Files : IsFulfilled(file)
          /\ TryBodyThrows(loaderKind)
    /\ loaderLog' = Append(loaderLog, ErrorOf(loaderKind))
    /\ beeData' = FallbackData(loaderKind)
    /\ phase' = "build"
    /\ UNCHANGED <<loaderKind, fetches>>
    /\ UnchangedByFetch

(* both responses arrived and the try body ran to its return               *)
LoadBeeDataReturn ==
    /\ phase = "fetching"
    /\ \A file \in Files : IsFulfilled(file)
    /\ ~TryBodyThrows(loaderKind)
    /\ beeData' = ConvertBreedingPairsToMutations(fetches["pairs"].body.items,
                                                  fetches["bees"].body.keys)
    /\ phase' = "build"
    /\ UNCHANGED <<loaderKind, fetches, loaderLog>>
    /\ UnchangedByFetch

NextFetch ==
    \/ FetchFulfils
    \/ FetchRejects
    \/ LoadBeeDataCatch
    \/ LoadBeeDataReturn
    \/ FindBaseBees
    \/ RelaxPass
    \/ CreateNodesAndLinks

SpecFetch == InitFetch /\ [][NextFetch]_vars

----------------------------------------------------------------------------
(* Claim about loadBeeData                                                 *)

LoaderReturned == phase \in {"build", "relax", "done"}

(* a fetch failed or was not OK, or a text did not parse, or the           *)
(* conversion threw                                                        *)
LoadFailed ==
    \/ \E file \in Files : fetches[file].state = "rejected"
    \/ \E file \in Files : IsFulfilled(file) /\ ~fetches[file].ok
    \/ \E file \in Files : IsFulfilled(file) /\ fetches[file].body = Unparsable
    \/ IsFulfilled("pairs") /\ fetches["pairs"].body.json # "array"

(* C21: loadBeeData always returns a dataset; in whatever order the two    *)
(* fetches complete, if a fetch fails or is not OK, a text does not parse  *)
(* or the conversion throws, the returned dataset is exactly the           *)
(* hard-coded fallback, with no entry of the file that did load; and       *)
(* buildHierarchy on the fallback gives generation-0 nodes and no links.   *)
C21_FallbackOnAnyFailure ==
    /\ (LoaderReturned /\ LoadFailed) => beeData = FallbackData(loaderKind)
    /\ (Done /\ beeData = FallbackData(loaderKind)) =>
          /\ \A k \in DOMAIN nodes : nodes[k].generation = 0
          /\ links = <<>>

============================================================================
